---- MODULE Spec2Model ----
(***************************************************************************)
(* World Cup strength-of-schedule application: the interactive bracket     *)
(* probability engine of the front end (bracketOverrides and the functions *)
(* that read and write it) and the Monte Carlo group simulators.           *)
(*                                                                         *)
(* Probabilities are exact rationals <<numerator, denominator>> in lowest  *)
(* terms; the JavaScript computes them in IEEE doubles.  Ratings are taken *)
(* 400 points apart so that 10^((b-a)/400) is an integer power of ten.     *)
(***************************************************************************)
EXTENDS Integers, Sequences, FiniteSets, TLC

VARIABLES
    groupSim,          \* sosData.groupSimulation: group letter -> team rows
    bracketOverrides,  \* matchId -> locked team {code, elo}, NoTeam if absent
    simulator,         \* which Monte Carlo simulator is running
    sim,               \* its loop counter: iterations done so far
    positions,         \* its positional counters: code -> count per rank
    teamStats,         \* simulateTournament: code -> round counters
    args,              \* the arguments of the function being applied
    result,            \* what it returned or threw, "none" before
    cache,             \* server: key -> {data, timestamp} of the parsed TSV
    monteCarloCache,   \* server: {data, rankingsTimestamp} of the simulation
    clock,             \* server: Date.now()
    remote,            \* the version of World.tsv that eloratings.net serves
    requests           \* server: the route handlers in flight, with their locals

bracketVars == <<groupSim, bracketOverrides>>
simVars == <<simulator, sim, positions, teamStats, args, result>>
serverVars == <<cache, monteCarloCache, clock, remote, requests>>
vars == <<groupSim, bracketOverrides, simulator, sim, positions, teamStats, args, result,
          cache, monteCarloCache, clock, remote, requests>>

-----------------------------------------------------------------------------
(* The server before its first request *)

\* data: null
NoData == 0

\* The handlers that can be in flight together.
RequestIds == {1, 2}

\* A handler that has not been called: no local is bound.
IdleRequest ==
    [route |-> "none", pc |-> "idle", key |-> "none", now |-> 0,
     rankings |-> NoData, teams |-> NoData, status |-> 0, groupSimulation |-> NoData]

\* let cache = {...}; let monteCarloCache = {...}
InitServerIdle ==
    /\ cache = [k \in {"rankings", "teams"} |-> [data |-> NoData, timestamp |-> 0]]
    /\ monteCarloCache = [data |-> NoData, rankingsTimestamp |-> 0]
    /\ clock = 1
    /\ remote = 1
    /\ requests = [r \in RequestIds |-> IdleRequest]

-----------------------------------------------------------------------------
\* `const v = e; F(v)`: e is evaluated once and its value is bound to v.
LetConst(F(_), e) == CHOOSE r \in {F(v) : v \in {e}} : TRUE

-----------------------------------------------------------------------------
(* Rational arithmetic *)

RECURSIVE GCD(_, _)
GCD(a, b) == IF b = 0 THEN a ELSE GCD(b, a % b)

Norm(n, d) == LET g == GCD(n, d) IN IF n = 0 THEN <<0, 1>> ELSE <<n \div g, d \div g>>

RZero == <<0, 1>>
ROne == <<1, 1>>
RHalf == <<1, 2>>
RMul(p, q) == LET g1 == IF p[1] = 0 THEN 1 ELSE GCD(q[2], p[1])
                  g2 == IF q[1] = 0 THEN 1 ELSE GCD(p[2], q[1])
              IN Norm((p[1] \div g1) * (q[1] \div g2), (p[2] \div g2) * (q[2] \div g1))
RAdd(p, q) == LET g == GCD(p[2], q[2])
              IN Norm(p[1] * (q[2] \div g) + q[1] * (p[2] \div g), (p[2] \div g) * q[2])
RDiv(p, q) == Norm(p[1] * q[2], p[2] * q[1])

-----------------------------------------------------------------------------
(* Static tournament structure and the team value *)

\* JavaScript null / undefined for a team object.
NoTeam == [code |-> "null", elo |-> 0]

\* A slot notation "1A", "2B", "3ABD" split into its first character and the rest.
Slot(h, t) == [head |-> h, tail |-> t]

\* sosData.worldCupGroups.knockout, reduced to eight Round-of-32 slots: four
\* R32 matches, two R16 matches whose winners meet in the final.
knockout ==
    [r32 |-> << [match |-> 1, team1 |-> Slot("1", "A"), team2 |-> Slot("2", "B"), prevMatches |-> <<>>],
                [match |-> 2, team1 |-> Slot("1", "C"), team2 |-> Slot("3", "ABD"), prevMatches |-> <<>>],
                [match |-> 3, team1 |-> Slot("1", "B"), team2 |-> Slot("2", "A"), prevMatches |-> <<>>],
                [match |-> 4, team1 |-> Slot("1", "D"), team2 |-> Slot("2", "C"), prevMatches |-> <<>>] >>,
     r16 |-> << [match |-> 17, team1 |-> Slot("", ""), team2 |-> Slot("", ""), prevMatches |-> <<1, 2>>],
                [match |-> 18, team1 |-> Slot("", ""), team2 |-> Slot("", ""), prevMatches |-> <<3, 4>>] >>,
     qf |-> <<>>,
     sf |-> <<>>,
     final |-> << [match |-> 31, team1 |-> Slot("", ""), team2 |-> Slot("", ""), prevMatches |-> <<17, 18>>] >>]

allMatches == knockout.r32 \o knockout.r16 \o knockout.qf \o knockout.sf \o knockout.final
laterMatches == knockout.r16 \o knockout.qf \o knockout.sf \o knockout.final
MatchIds == {allMatches[i].match : i \in 1..Len(allMatches)}
NoMatch == [match |-> 0, team1 |-> Slot("", ""), team2 |-> Slot("", ""), prevMatches |-> <<>>]

\* The highest match id of a Round-of-32 match (the literal in `matchId <= 16`).
R32MaxId == 16

findMatch(matchId) ==
    IF \E i \in 1..Len(allMatches) : allMatches[i].match = matchId
    THEN allMatches[CHOOSE i \in 1..Len(allMatches) :
                        /\ allMatches[i].match = matchId
                        /\ \A j \in 1..(i - 1) : allMatches[j].match /= matchId]
    ELSE NoMatch

SeqToSet(s) == {s[i] : i \in 1..Len(s)}
Codes(teams) == {teams[i].code : i \in 1..Len(teams)}

\* match.prevMatches as a set, empty for a Round-of-32 match
PrevOf(matchId) == SeqToSet(findMatch(matchId).prevMatches)


-----------------------------------------------------------------------------
(* Group-simulation data served by /api/sos (rows of simulateTournament's   *)
(* result): positional probabilities are given in percent.                  *)

Row(c, e, p1, p2) == [code |-> c, elo |-> e, pos1Prob |-> p1, pos2Prob |-> p2]

\* Each group has a clear favourite and a clear runner-up.
GroupSimDistinct ==
    [A |-> << Row("a1", 2000, 60, 25), Row("a2", 1600, 25, 40), Row("a3", 1600, 10, 20), Row("a4", 1200, 5, 15) >>,
     B |-> << Row("b1", 2000, 55, 25), Row("b2", 1600, 25, 35), Row("b3", 1600, 15, 25), Row("b4", 1200, 5, 15) >>,
     C |-> << Row("c1", 1600, 40, 30), Row("c2", 1600, 35, 32), Row("c3", 1600, 20, 25), Row("c4", 1200, 5, 13) >>,
     D |-> << Row("d1", 2000, 70, 20), Row("d2", 1600, 15, 35), Row("d3", 1600, 10, 25), Row("d4", 1200, 5, 20) >>]

\* After a ratings update group A is balanced: a1 is still its most likely
\* winner and is now also its most likely runner-up, so the slots 1A and 2A
\* resolve to the same team.
GroupSimBalanced ==
    [GroupSimDistinct EXCEPT
        !.A = << Row("a1", 1600, 27, 26), Row("a2", 1600, 25, 25), Row("a3", 1600, 24, 25), Row("a4", 1600, 24, 24) >>]

DataVersions == {GroupSimDistinct, GroupSimBalanced}

ThirdPlaceElo == 1600
DefaultElo == 1500

-----------------------------------------------------------------------------
(* Pure helpers of the bracket engine *)

\* Array.prototype.sort with a comparator on one numeric key, descending; the
\* sort is stable, so rows with equal keys keep their order.
RECURSIVE InsertDesc(_, _)
InsertDesc(sorted, x) ==
    IF sorted = <<>> THEN <<x>>
    ELSE IF x.key > Head(sorted).key THEN <<x>> \o sorted
    ELSE LetConst(LAMBDA rest : <<Head(sorted)>> \o InsertDesc(rest, x), Tail(sorted))

\* seq is a sequence of [key, val] records.
RECURSIVE SortDesc(_)
SortDesc(seq) ==
    IF seq = <<>> THEN <<>>
    ELSE LetConst(LAMBDA sorted : InsertDesc(sorted, seq[Len(seq)]),
                  SortDesc(SubSeq(seq, 1, Len(seq) - 1)))

\* parseInt of one character; -1 stands for NaN (every comparison with it that
\* the code makes is false).
ParseInt(ch) == CASE ch = "1" -> 1 [] ch = "2" -> 2 [] ch = "3" -> 3 [] ch = "4" -> 4 [] OTHER -> -1

\* 10^k for the rating gaps of the model.
Pow10(k) == CASE k = 0 -> 1 [] k = 1 -> 10 [] k = 2 -> 100

knockoutWinProb(elo1, elo2) ==
    LET d == elo2 - elo1
    IN CASE d % 400 = 0 /\ d >= 0 -> Norm(1, 1 + Pow10(d \div 400))
         [] d % 400 = 0 /\ d < 0 -> Norm(Pow10((0 - d) \div 400), Pow10((0 - d) \div 400) + 1)

getOverride(ov, matchId) == ov[matchId]

resolveBracketSlot(gs, slot) ==
    IF slot.head = "3"
    THEN [code |-> "3rd-" \o slot.tail, elo |-> ThirdPlaceElo]
    ELSE LET pos == ParseInt(slot.head)
             group == slot.tail
         IN IF group \notin DOMAIN gs \/ (pos /= -1 /\ Len(gs[group]) < pos)
            THEN NoTeam
            ELSE LET groupData == gs[group]
                     PosProb(row) == IF pos = 1 THEN row.pos1Prob ELSE row.pos2Prob
                     sortedByPos == SortDesc([i \in 1..Len(groupData) |->
                                        [key |-> PosProb(groupData[i]), val |-> groupData[i]]])
                     team == sortedByPos[1].val
                 IN [code |-> team.code, elo |-> team.elo]

-----------------------------------------------------------------------------
(* The bracket probability engine.  ov is the override map, gs the          *)
(* group-simulation data; both are globals in the code.                     *)

RECURSIVE getPossibleTeamsFromMatch(_, _, _)
RECURSIVE PossibleFromPrev(_, _, _)

\* teams.push(...getPossibleTeamsFromMatch(prevMatchId)) for each prevMatchId
PossibleFromPrev(ov, gs, prevs) ==
    IF prevs = <<>> THEN <<>>
    ELSE getPossibleTeamsFromMatch(ov, gs, Head(prevs)) \o PossibleFromPrev(ov, gs, Tail(prevs))

getPossibleTeamsFromMatch(ov, gs, matchId) ==
    LET match == findMatch(matchId)
    IN IF match = NoMatch THEN <<>>
       ELSE IF getOverride(ov, matchId) /= NoTeam THEN << getOverride(ov, matchId) >>
       ELSE IF matchId <= R32MaxId
            THEN LET team1 == resolveBracketSlot(gs, match.team1)
                     team2 == resolveBracketSlot(gs, match.team2)
                 IN (IF team1 /= NoTeam THEN <<team1>> ELSE <<>>)
                    \o (IF team2 /= NoTeam THEN <<team2>> ELSE <<>>)
            ELSE PossibleFromPrev(ov, gs, match.prevMatches)

\* `if (!t1 || !t2) return null; prob1 = knockoutWinProb(t1.elo, t2.elo);
\*  return prob1 >= 0.5 ? t1 : t2`, as getMatchWinner does at every round
FavouriteOf(pair) ==
    IF pair[1] = NoTeam \/ pair[2] = NoTeam THEN NoTeam
    ELSE LET prob1 == knockoutWinProb(pair[1].elo, pair[2].elo)
         IN IF 2 * prob1[1] >= prob1[2] THEN pair[1] ELSE pair[2]

Favourite(t1, t2) == LetConst(FavouriteOf, <<t1, t2>>)

RECURSIVE getMatchWinner(_, _, _)
getMatchWinner(ov, gs, matchId) ==
    LET match == findMatch(matchId)
    IN IF getOverride(ov, matchId) /= NoTeam THEN getOverride(ov, matchId)
       ELSE IF match = NoMatch THEN NoTeam
       ELSE IF matchId <= R32MaxId
            THEN Favourite(resolveBracketSlot(gs, match.team1), resolveBracketSlot(gs, match.team2))
            ELSE IF Len(match.prevMatches) >= 2
                 THEN Favourite(getMatchWinner(ov, gs, match.prevMatches[1]),
                                getMatchWinner(ov, gs, match.prevMatches[2]))
                 ELSE NoTeam

\* getMatchTeams and getMatchTeamsWithProb have the same body.
getMatchTeams(ov, gs, matchId) ==
    LET match == findMatch(matchId)
    IN IF match = NoMatch THEN [team1 |-> NoTeam, team2 |-> NoTeam]
       ELSE IF matchId <= R32MaxId
            THEN [team1 |-> resolveBracketSlot(gs, match.team1),
                  team2 |-> resolveBracketSlot(gs, match.team2)]
            ELSE IF Len(match.prevMatches) >= 2
                 THEN [team1 |-> getMatchWinner(ov, gs, match.prevMatches[1]),
                       team2 |-> getMatchWinner(ov, gs, match.prevMatches[2])]
                 ELSE [team1 |-> NoTeam, team2 |-> NoTeam]

getMatchTeamsWithProb(ov, gs, matchId) == getMatchTeams(ov, gs, matchId)

\* Object.entries(bracketOverrides) lists integer keys in ascending order.
RECURSIVE EloFromOverrides(_, _, _)
EloFromOverrides(ov, teamCode, ids) ==
    IF ids = {} THEN DefaultElo
    ELSE LET mId == CHOOSE x \in ids : \A y \in ids : x <= y
         IN IF ov[mId] /= NoTeam /\ ov[mId].code = teamCode /\ ov[mId].elo /= 0
            THEN ov[mId].elo
            ELSE EloFromOverrides(ov, teamCode, ids \ {mId})

RECURSIVE EloFromR32(_, _, _, _)
EloFromR32(ov, gs, teamCode, i) ==
    IF i > Len(knockout.r32) THEN EloFromOverrides(ov, teamCode, MatchIds)
    ELSE LET team1 == resolveBracketSlot(gs, knockout.r32[i].team1)
             team2 == resolveBracketSlot(gs, knockout.r32[i].team2)
         IN IF team1 /= NoTeam /\ team1.code = teamCode THEN team1.elo
            ELSE IF team2 /= NoTeam /\ team2.code = teamCode THEN team2.elo
            ELSE EloFromR32(ov, gs, teamCode, i + 1)

getTeamElo(ov, gs, teamCode) == EloFromR32(ov, gs, teamCode, 1)

RECURSIVE getProbOfReaching(_, _, _, _)
RECURSIVE ReachFromPrev(_, _, _, _)
RECURSIVE getCumulativeProbWin(_, _, _, _)
RECURSIVE getWeightedWinProb(_, _, _, _, _)
RECURSIVE WeightedSum(_, _, _, _, _)

\* ReachFromPrev that does not treat a locked predecessor as won: the
\* predecessor's win probability is computed as if it were not locked.
ReachFromPrev_IgnoreLock(ov, gs, teamCode, prevs) ==
    IF prevs = <<>> THEN RZero
    ELSE LET prevMatchId == Head(prevs)
         IN IF teamCode \in Codes(getPossibleTeamsFromMatch(ov, gs, prevMatchId))
            THEN getCumulativeProbWin([ov EXCEPT ![prevMatchId] = NoTeam], gs,
                                      teamCode, prevMatchId)
            ELSE ReachFromPrev(ov, gs, teamCode, Tail(prevs))

\* the loop `for (const prevMatchId of match.prevMatches)` of getProbOfReaching
ReachFromPrev(ov, gs, teamCode, prevs) ==
    IF prevs = <<>> THEN RZero
    ELSE LET prevMatchId == Head(prevs)
             prevOverride == getOverride(ov, prevMatchId)
         IN IF prevOverride /= NoTeam /\ prevOverride.code = teamCode
            THEN getProbOfReaching(ov, gs, teamCode, prevMatchId)
            ELSE IF teamCode \in Codes(getPossibleTeamsFromMatch(ov, gs, prevMatchId))
                 THEN getCumulativeProbWin(ov, gs, teamCode, prevMatchId)
                 ELSE ReachFromPrev(ov, gs, teamCode, Tail(prevs))

getProbOfReaching(ov, gs, teamCode, matchId) ==
    LET match == findMatch(matchId)
    IN IF match = NoMatch THEN RZero
       ELSE IF matchId <= R32MaxId
            THEN LET team1 == resolveBracketSlot(gs, match.team1)
                     team2 == resolveBracketSlot(gs, match.team2)
                 IN IF (team1 /= NoTeam /\ team1.code = teamCode)
                       \/ (team2 /= NoTeam /\ team2.code = teamCode)
                    THEN ROne ELSE RZero
            ELSE ReachFromPrev(ov, gs, teamCode, match.prevMatches)

\* the loop over possibleOpponents of getWeightedWinProb:
\* <<weightedProb, totalWeight>> after the opponents in opps
WeightedSum(ov, gs, teamElo, opponentPrevMatchId, opps) ==
    IF opps = <<>> THEN <<RZero, RZero>>
    ELSE LET n == Len(opps)
             acc == WeightedSum(ov, gs, teamElo, opponentPrevMatchId, SubSeq(opps, 1, n - 1))
             opponent == opps[n]
             oppReachProb == getCumulativeProbWin(ov, gs, opponent.code, opponentPrevMatchId)
         IN IF oppReachProb[1] > 0
            THEN << RAdd(acc[1], RMul(oppReachProb, knockoutWinProb(teamElo, opponent.elo))),
                    RAdd(acc[2], oppReachProb) >>
            ELSE acc

getWeightedWinProb(ov, gs, teamCode, teamElo, matchId) ==
    LET match == findMatch(matchId)
    IN IF match = NoMatch \/ Len(match.prevMatches) = 0 THEN RHalf
       ELSE LET prevs == match.prevMatches
                \* the last prevMatchId whose possible teams do not hold the team
                others == {i \in 1..Len(prevs) :
                             teamCode \notin Codes(getPossibleTeamsFromMatch(ov, gs, prevs[i]))}
            IN IF others = {} THEN RHalf
               ELSE LET opponentPrevMatchId == prevs[CHOOSE i \in others : \A j \in others : j <= i]
                        possibleOpponents == getPossibleTeamsFromMatch(ov, gs, opponentPrevMatchId)
                        sums == WeightedSum(ov, gs, teamElo, opponentPrevMatchId, possibleOpponents)
                    IN IF Len(possibleOpponents) = 0 THEN RHalf
                       ELSE IF sums[2][1] > 0 THEN RDiv(sums[1], sums[2]) ELSE RHalf

getCumulativeProbWin(ov, gs, teamCode, matchId) ==
    LET match == findMatch(matchId)
        override == getOverride(ov, matchId)
    IN IF match = NoMatch THEN RZero
       ELSE IF override /= NoTeam
            THEN (IF override.code = teamCode
                  THEN getProbOfReaching(ov, gs, teamCode, matchId)
                  ELSE RZero)
       ELSE LET reachProb == getProbOfReaching(ov, gs, teamCode, matchId)
            IN IF reachProb = RZero THEN RZero
               ELSE IF matchId <= R32MaxId
                    THEN LET mt == getMatchTeamsWithProb(ov, gs, matchId)
                         IN IF mt.team1 = NoTeam \/ mt.team2 = NoTeam THEN reachProb
                            ELSE LET team == IF mt.team1.code = teamCode THEN mt.team1 ELSE mt.team2
                                     opponent == IF mt.team1.code = teamCode THEN mt.team2 ELSE mt.team1
                                 IN RMul(reachProb, knockoutWinProb(team.elo, opponent.elo))
                    ELSE RMul(reachProb,
                              getWeightedWinProb(ov, gs, teamCode, getTeamElo(ov, gs, teamCode), matchId))

-----------------------------------------------------------------------------
(* Override mutation *)

NoOverrides == [m \in MatchIds |-> NoTeam]

\* findTeamInRound: the first match of the round whose possible teams hold the
\* team, NoMatch if there is none
findTeamInRound(ov, gs, teamCode, matches) ==
    LET hits == {i \in 1..Len(matches) :
                    teamCode \in Codes(getPossibleTeamsFromMatch(ov, gs, matches[i].match))}
    IN IF hits = {} THEN NoMatch
       ELSE matches[CHOOSE i \in hits : \A j \in hits : i <= j]

allRounds == << knockout.r32, knockout.r16, knockout.qf, knockout.sf, knockout.final >>

\* the loop `for (const round of allRounds)` from round r on
RECURSIVE UpstreamFrom(_, _, _, _, _)
UpstreamFrom(ov, gs, teamCode, targetMatchId, r) ==
    IF r > Len(allRounds) THEN <<>>
    ELSE LetConst(LAMBDA match :
                    IF match = NoMatch
                    THEN UpstreamFrom(ov, gs, teamCode, targetMatchId, r + 1)
                    ELSE IF match.match = targetMatchId
                         THEN << match.match >>
                         ELSE << match.match >>
                              \o UpstreamFrom(ov, gs, teamCode, targetMatchId, r + 1),
                  findTeamInRound(ov, gs, teamCode, allRounds[r]))

findUpstreamMatches(ov, gs, teamCode, targetMatchId) ==
    UpstreamFrom(ov, gs, teamCode, targetMatchId, 1)

\* the loop `for (const match of allMatches)` of clearDownstreamOverrides from
\* index i on, with the recursive call made inside it
RECURSIVE ClearFrom(_, _, _)
ClearFrom(ov, matchId, i) ==
    IF i > Len(laterMatches) THEN ov
    ELSE LET match == laterMatches[i]
         IN IF matchId \in SeqToSet(match.prevMatches)
            THEN ClearFrom(ClearFrom([ov EXCEPT ![match.match] = NoTeam], match.match, 1),
                           matchId, i + 1)
            ELSE ClearFrom(ov, matchId, i + 1)

\* clearDownstreamOverrides without the recursive call: only the matches fed
\* directly by matchId are cleared.
clearDownstreamOverrides_OneLevel(ov, matchId) ==
    [m \in MatchIds |-> IF matchId \in PrevOf(m) THEN NoTeam ELSE ov[m]]

clearDownstreamOverrides(ov, matchId) == ClearFrom(ov, matchId, 1)

\* handleBracketClick without its unlock branch: a click always installs the team.
handleBracketClick_NoUnlock(ov, gs, matchId, team) ==
    IF team = NoTeam THEN ov
    ELSE LetConst(LAMBDA upstreamPath :
                    clearDownstreamOverrides(
                        [m \in MatchIds |->
                            IF m \in upstreamPath
                            THEN [code |-> team.code, elo |-> team.elo]
                            ELSE ov[m]], matchId),
                  SeqToSet(findUpstreamMatches(ov, gs, team.code, matchId)))

\* The override map after handleBracketClick(matchId, team).
handleBracketClick(ov, gs, matchId, team) ==
    IF team = NoTeam THEN ov
    ELSE LetConst(LAMBDA upstreamPath :
                    LET toggled ==
                            IF ov[matchId] /= NoTeam /\ ov[matchId].code = team.code
                            THEN [m \in MatchIds |->
                                     IF m \in upstreamPath THEN NoTeam ELSE ov[m]]
                            ELSE [m \in MatchIds |->
                                     IF m \in upstreamPath
                                     THEN [code |-> team.code, elo |-> team.elo]
                                     ELSE ov[m]]
                    IN clearDownstreamOverrides(toggled, matchId),
                  SeqToSet(findUpstreamMatches(ov, gs, team.code, matchId)))

\* The teams rendered in a match (renderBracketMatch): each carries the
\* onclick handler handleBracketClick(matchId, team); a missing team is
\* rendered as TBD without a handler.
ClickableTeams(ov, gs, matchId) ==
    {getMatchTeams(ov, gs, matchId).team1, getMatchTeams(ov, gs, matchId).team2} \ {NoTeam}

-----------------------------------------------------------------------------
(* Actions of the bracket page *)

InitBracket ==
    /\ groupSim \in DataVersions
    /\ bracketOverrides = NoOverrides

BracketClick(matchId, team) ==
    /\ team \in ClickableTeams(bracketOverrides, groupSim, matchId)
    /\ bracketOverrides' = handleBracketClick(bracketOverrides, groupSim, matchId, team)
    /\ UNCHANGED groupSim

resetBracket ==
    /\ bracketOverrides' = NoOverrides
    /\ UNCHANGED groupSim

\* fetchAllData replaces sosData and re-renders; bracketOverrides is not touched.
fetchAllData ==
    /\ groupSim' \in DataVersions
    /\ UNCHANGED bracketOverrides

\* Every team object that can be rendered in the bracket.
AllTeams ==
    UNION {ClickableTeams(NoOverrides, gs, m) : gs \in DataVersions, m \in MatchIds}

Click == \E matchId \in MatchIds, team \in AllTeams : BracketClick(matchId, team)

InitSimIdle ==
    /\ simulator = "none"
    /\ sim = 0
    /\ positions = <<>>
    /\ teamStats = <<>>
    /\ args = <<>>
    /\ result = "none"

Init == InitBracket /\ InitSimIdle /\ InitServerIdle

Next ==
    \/ Click /\ UNCHANGED <<simVars, serverVars>>
    \/ resetBracket /\ UNCHANGED <<simVars, serverVars>>
    \/ fetchAllData /\ UNCHANGED <<simVars, serverVars>>

Spec == Init /\ [][Next]_vars

\* The bracket page between two data refreshes: clicks and resets only.
NextClicks ==
    \/ Click /\ UNCHANGED <<simVars, serverVars>>
    \/ resetBracket /\ UNCHANGED <<simVars, serverVars>>

SpecClicks == Init /\ [][NextClicks]_vars

-----------------------------------------------------------------------------
(* The Monte Carlo group simulators: simulateGroupMonteCarlo (the group     *)
(* view) and simulateGroup inside the iteration loop of simulateTournament. *)
(* Math.random is a nondeterministic choice of each match's result; every   *)
(* result has positive probability for every pair of ratings.               *)

MaxSims == 2

\* The group handed to the simulators: four distinct team codes.
GroupTeams ==
    << [code |-> "t1", elo |-> 2000], [code |-> "t2", elo |-> 1600],
       [code |-> "t3", elo |-> 1600], [code |-> "t4", elo |-> 1200] >>

Outcomes == {"win", "draw", "loss"}

\* for (i = 0; i < n; i++) for (j = i + 1; j < n; j++): the pairings in order
RECURSIVE PairsFrom(_, _, _)
PairsFrom(n, i, j) ==
    IF i > n THEN <<>>
    ELSE IF j > n THEN PairsFrom(n, i + 1, i + 2)
    ELSE << <<i, j>> >> \o PairsFrom(n, i, j + 1)

Pairings(n) == PairsFrom(n, 1, 2)

\* Sum of f(k) over the pairings k
RECURSIVE SumOver(_, _)
SumOver(f, n) == IF n = 0 THEN 0 ELSE f[n] + SumOver(f, n - 1)

\* simPoints[teams[t].code] after all pairings, given each pairing's result
PointsOf(t, pairs, results) ==
    SumOver([k \in 1..Len(pairs) |->
                IF pairs[k][1] = t
                THEN (CASE results[k] = "win" -> 3 [] results[k] = "draw" -> 1 [] OTHER -> 0)
                ELSE IF pairs[k][2] = t
                THEN (CASE results[k] = "loss" -> 3 [] results[k] = "draw" -> 1 [] OTHER -> 0)
                ELSE 0],
            Len(pairs))

\* stats[code].gd of simulateGroup: +1 for the winner, -1 for the loser
GdOf(t, pairs, results) ==
    SumOver([k \in 1..Len(pairs) |->
                IF pairs[k][1] = t
                THEN (CASE results[k] = "win" -> 1 [] results[k] = "loss" -> -1 [] OTHER -> 0)
                ELSE IF pairs[k][2] = t
                THEN (CASE results[k] = "loss" -> 1 [] results[k] = "win" -> -1 [] OTHER -> 0)
                ELSE 0],
            Len(pairs))

\* simulateGroupMonteCarlo: teams.map(...).sort((a, b) => b.points - a.points)
StandingsByPoints(teams, results) ==
    LET pairs == Pairings(Len(teams))
        sorted == SortDesc([t \in 1..Len(teams) |->
                      [key |-> PointsOf(t, pairs, results), val |-> teams[t].code]])
    IN [i \in 1..Len(sorted) |-> sorted[i].val]

\* A comparator that looks at the points only.
Outranks_PointsOnly(a, b) == b.points - a.points < 0

\* The comparator of simulateGroup: a sorts before b
Outranks(a, b) ==
    IF b.points /= a.points THEN b.points - a.points < 0
    ELSE IF b.gd /= a.gd THEN b.gd - a.gd < 0
    ELSE b.elo - a.elo < 0

RECURSIVE InsertStanding(_, _)
InsertStanding(sorted, x) ==
    IF sorted = <<>> THEN <<x>>
    ELSE IF Outranks(x, Head(sorted)) THEN <<x>> \o sorted
    ELSE LetConst(LAMBDA rest : <<Head(sorted)>> \o InsertStanding(rest, x), Tail(sorted))

RECURSIVE SortStandings(_)
SortStandings(seq) ==
    IF seq = <<>> THEN <<>>
    ELSE LetConst(LAMBDA sorted : InsertStanding(sorted, seq[Len(seq)]),
                  SortStandings(SubSeq(seq, 1, Len(seq) - 1)))

\* simulateGroup(teams): standings by points, then gd, then elo
simulateGroup(teams, results) ==
    LET pairs == Pairings(Len(teams))
    IN SortStandings([t \in 1..Len(teams) |->
            [code |-> teams[t].code,
             points |-> PointsOf(t, pairs, results),
             gd |-> GdOf(t, pairs, results),
             elo |-> teams[t].elo]])

ZeroPositions(teams) == [c \in Codes(teams) |-> <<0, 0, 0, 0>>]

\* CountPositions that starts counting at the second place.
CountPositions_SkipFirst(pos, standing) ==
    [c \in DOMAIN pos |->
        [i \in 1..4 |-> IF i > 1 /\ i <= Len(standing) /\ standing[i] = c THEN pos[c][i] + 1
                        ELSE pos[c][i]]]

\* NaN, the value of undefined++
NaN == -1

\* x++
Increment(x) == IF x = NaN THEN NaN ELSE x + 1

\* standings.forEach((team, index) => stats[team.code].positions[index]++)
\* (an index past the end of the array stores NaN there)
CountPositions(pos, standing) ==
    [c \in DOMAIN pos |->
        LET index == IF \E i \in 1..Len(standing) : standing[i] = c
                     THEN CHOOSE i \in 1..Len(standing) : standing[i] = c
                     ELSE 0
        IN IF index = 0 THEN pos[c]
           ELSE IF index <= Len(pos[c]) THEN [pos[c] EXCEPT ![index] = Increment(@)]
           ELSE Append(pos[c], NaN)]

InitSim ==
    /\ simulator \in {"simulateGroupMonteCarlo", "simulateTournament"}
    /\ sim = 0
    /\ positions = ZeroPositions(GroupTeams)
    /\ teamStats = <<>>
    /\ args = [teams |-> GroupTeams]
    /\ result = "none"

\* One iteration of the loop of simulateGroupMonteCarlo, as far as its
\* positional counters go.
GroupIteration(results) ==
    /\ simulator = "simulateGroupMonteCarlo"
    /\ sim < MaxSims
    /\ positions' = CountPositions(positions, StandingsByPoints(args.teams, results))
    /\ sim' = sim + 1
    /\ UNCHANGED <<simulator, teamStats, args, result>>

\* One iteration of the loop of simulateTournament, for one group.
TournamentIteration(results) ==
    /\ simulator = "simulateTournament"
    /\ sim < MaxSims
    /\ LET standings == simulateGroup(args.teams, results)
       IN positions' = CountPositions(positions,
                          [i \in 1..Len(standings) |-> standings[i].code])
    /\ sim' = sim + 1
    /\ UNCHANGED <<simulator, teamStats, args, result>>

InitSims ==
    /\ groupSim = GroupSimDistinct
    /\ bracketOverrides = NoOverrides
    /\ InitServerIdle
    /\ InitSim

NextSims ==
    \/ \E results \in [1..Len(Pairings(Len(GroupTeams))) -> Outcomes] :
           GroupIteration(results) /\ UNCHANGED <<bracketVars, serverVars>>
    \/ \E results \in [1..Len(Pairings(Len(GroupTeams))) -> Outcomes] :
           TournamentIteration(results) /\ UNCHANGED <<bracketVars, serverVars>>

SpecSims == InitSims /\ [][NextSims]_vars

\* The simulators handed a group of three, four or five teams.
ExtraTeam == [code |-> "t5", elo |-> 1200]

GroupInputs == {SubSeq(GroupTeams, 1, 3), GroupTeams, GroupTeams \o <<ExtraTeam>>}

\* The results of the n pairings of one iteration: three drawn results,
\* repeated in turn.
SizedResults(n) ==
    {[k \in 1..n |-> r[((k - 1) % 3) + 1]] : r \in [1..3 -> Outcomes]}

InitSizes ==
    /\ groupSim = GroupSimDistinct
    /\ bracketOverrides = NoOverrides
    /\ InitServerIdle
    /\ simulator \in {"simulateGroupMonteCarlo", "simulateTournament"}
    /\ sim = 0
    /\ args \in {[teams |-> t] : t \in GroupInputs}
    /\ positions = ZeroPositions(args.teams)
    /\ teamStats = <<>>
    /\ result = "none"

NextSizes ==
    \/ \E results \in SizedResults(Len(Pairings(Len(args.teams)))) :
           GroupIteration(results) /\ UNCHANGED <<bracketVars, serverVars>>
    \/ \E results \in SizedResults(Len(Pairings(Len(args.teams)))) :
           TournamentIteration(results) /\ UNCHANGED <<bracketVars, serverVars>>

SpecSizes == InitSizes /\ [][NextSizes]_vars

\* simulateGroupMonteCarlo handed four teams of one rating.
EqualTeams ==
    << [code |-> "e1", elo |-> 1600], [code |-> "e2", elo |-> 1600],
       [code |-> "e3", elo |-> 1600], [code |-> "e4", elo |-> 1600] >>

InitEqual ==
    /\ groupSim = GroupSimDistinct
    /\ bracketOverrides = NoOverrides
    /\ InitServerIdle
    /\ simulator = "simulateGroupMonteCarlo"
    /\ sim = 0
    /\ args = [teams |-> EqualTeams]
    /\ positions = ZeroPositions(args.teams)
    /\ teamStats = <<>>
    /\ result = "none"

NextEqual ==
    \E results \in [1..Len(Pairings(Len(args.teams))) -> Outcomes] :
        GroupIteration(results) /\ UNCHANGED <<bracketVars, serverVars>>

SpecEqual == InitEqual /\ [][NextEqual]_vars

\* simulateGroupMonteCarlo with its win, draw, loss and points totals: the
\* tallies of one iteration, keyed by team code, after the matches from the
\* k-th on have been played.
ZeroTally(teams) ==
    [c \in Codes(teams) |-> [wins |-> 0, draws |-> 0, losses |-> 0, points |-> 0]]

\* PlayMatches that credits a draw to teamA only.
RECURSIVE PlayMatches_DrawOneSide(_, _, _, _, _)
PlayMatches_DrawOneSide(tally, teams, pairs, results, k) ==
    IF k > Len(pairs) THEN tally
    ELSE LET a == teams[pairs[k][1]].code
             b == teams[pairs[k][2]].code
         IN PlayMatches_DrawOneSide(
                CASE results[k] = "win" ->
                       [tally EXCEPT ![a].points = @ + 3, ![a].wins = @ + 1]
                  [] results[k] = "loss" ->
                       [tally EXCEPT ![b].points = @ + 3, ![b].wins = @ + 1]
                  [] OTHER ->
                       [tally EXCEPT ![a].points = @ + 1, ![a].draws = @ + 1],
                teams, pairs, results, k + 1)

\* for (const [teamA, teamB] of matches) { ... }
RECURSIVE PlayMatches(_, _, _, _, _)
PlayMatches(tally, teams, pairs, results, k) ==
    IF k > Len(pairs) THEN tally
    ELSE LET a == teams[pairs[k][1]].code
             b == teams[pairs[k][2]].code
             won == [tally EXCEPT ![a].points = @ + 3, ![a].wins = @ + 1]
             lost == [tally EXCEPT ![b].points = @ + 3, ![b].wins = @ + 1]
             drawn == [tally EXCEPT ![a].points = @ + 1, ![a].draws = @ + 1]
         IN PlayMatches(
                CASE results[k] = "win" -> [won EXCEPT ![b].losses = @ + 1]
                  [] results[k] = "loss" -> [lost EXCEPT ![a].losses = @ + 1]
                  [] OTHER -> [drawn EXCEPT ![b].points = @ + 1, ![b].draws = @ + 1],
                teams, pairs, results, k + 1)

\* stats[team.code].wins += simWins[team.code], and so on
AccumulateStats(stats, teams, results) ==
    LetConst(LAMBDA tally :
                [c \in DOMAIN stats |->
                    [wins |-> stats[c].wins + tally[c].wins,
                     draws |-> stats[c].draws + tally[c].draws,
                     losses |-> stats[c].losses + tally[c].losses,
                     points |-> stats[c].points + tally[c].points]],
             PlayMatches(ZeroTally(teams), teams, Pairings(Len(teams)), results, 1))

\* One iteration of the loop of simulateGroupMonteCarlo, totals included.
GroupSimulation(results) ==
    /\ simulator = "simulateGroupMonteCarlo"
    /\ sim < MaxSims
    /\ teamStats' = AccumulateStats(teamStats, args.teams, results)
    /\ positions' = CountPositions(positions, StandingsByPoints(args.teams, results))
    /\ sim' = sim + 1
    /\ UNCHANGED <<simulator, args, result>>

InitTotals ==
    /\ groupSim = GroupSimDistinct
    /\ bracketOverrides = NoOverrides
    /\ InitServerIdle
    /\ simulator = "simulateGroupMonteCarlo"
    /\ sim = 0
    /\ args = [teams |-> GroupTeams]
    /\ positions = ZeroPositions(args.teams)
    /\ teamStats = ZeroTally(args.teams)
    /\ result = "none"

NextTotals ==
    \E results \in SizedResults(Len(Pairings(Len(args.teams)))) :
        GroupSimulation(results) /\ UNCHANGED <<bracketVars, serverVars>>

SpecTotals == InitTotals /\ [][NextTotals]_vars

\* simulateTournament's simulateGroup handed a group listed by rating
\* ascending, two of the teams rated alike.
AscendingTeams ==
    << [code |-> "u1", elo |-> 1200], [code |-> "u2", elo |-> 1600],
       [code |-> "u3", elo |-> 1600], [code |-> "u4", elo |-> 2000] >>

InitStandings ==
    /\ groupSim = GroupSimDistinct
    /\ bracketOverrides = NoOverrides
    /\ InitServerIdle
    /\ simulator = "simulateTournament"
    /\ sim = 0
    /\ args = [teams |-> AscendingTeams]
    /\ positions = ZeroPositions(args.teams)
    /\ teamStats = <<>>
    /\ result = "none"

NextStandings ==
    \E results \in [1..Len(Pairings(Len(args.teams))) -> Outcomes] :
        TournamentIteration(results) /\ UNCHANGED <<bracketVars, serverVars>>

SpecStandings == InitStandings /\ [][NextStandings]_vars

-----------------------------------------------------------------------------
(* simulateTournament: one iteration of its loop over all twelve groups and *)
(* the whole knockout bracket.                                              *)

\* groupData.groups in insertion order (Object.entries).
GroupNames == << "A", "B", "C", "D", "E", "F", "G", "H", "I", "J", "K", "L" >>
GroupSet == SeqToSet(GroupNames)

GroupPrefix ==
    [A |-> "a", B |-> "b", C |-> "c", D |-> "d", E |-> "e", F |-> "f",
     G |-> "g", H |-> "h", I |-> "i", J |-> "j", K |-> "k", L |-> "l"]

\* allTeams[groupName]: four teams per group; the third listed team is rated
\* 1600 in six of the groups and 1200 in the others.
allTeams ==
    [g \in GroupSet |->
        << [code |-> GroupPrefix[g] \o "1", elo |-> 2000],
           [code |-> GroupPrefix[g] \o "2", elo |-> 1600],
           [code |-> GroupPrefix[g] \o "3",
            elo |-> IF g \in {"A", "B", "C", "D", "F", "G"} THEN 1600 ELSE 1200],
           [code |-> GroupPrefix[g] \o "4", elo |-> 1200] >>]

TournamentCodes == UNION {Codes(allTeams[g]) : g \in GroupSet}

\* groupData.knockout: sixteen Round-of-32 matches of the 48-team format
\* (twelve winners, twelve runners-up, eight third-place pools) and the four
\* rounds that follow them.
tournamentKnockout ==
    [r32 |-> << [match |-> 1,  team1 |-> Slot("2", "A"), team2 |-> Slot("2", "B")],
                [match |-> 2,  team1 |-> Slot("1", "E"), team2 |-> Slot("3", "ABCDF")],
                [match |-> 3,  team1 |-> Slot("1", "F"), team2 |-> Slot("2", "C")],
                [match |-> 4,  team1 |-> Slot("1", "C"), team2 |-> Slot("2", "F")],
                [match |-> 5,  team1 |-> Slot("1", "I"), team2 |-> Slot("3", "CDFGH")],
                [match |-> 6,  team1 |-> Slot("2", "E"), team2 |-> Slot("2", "I")],
                [match |-> 7,  team1 |-> Slot("1", "A"), team2 |-> Slot("3", "CEFHI")],
                [match |-> 8,  team1 |-> Slot("1", "L"), team2 |-> Slot("3", "EHIJK")],
                [match |-> 9,  team1 |-> Slot("1", "D"), team2 |-> Slot("3", "BEFIJ")],
                [match |-> 10, team1 |-> Slot("1", "G"), team2 |-> Slot("3", "AEHIJ")],
                [match |-> 11, team1 |-> Slot("2", "K"), team2 |-> Slot("2", "L")],
                [match |-> 12, team1 |-> Slot("1", "H"), team2 |-> Slot("2", "J")],
                [match |-> 13, team1 |-> Slot("1", "B"), team2 |-> Slot("3", "EFGIJ")],
                [match |-> 14, team1 |-> Slot("1", "J"), team2 |-> Slot("2", "H")],
                [match |-> 15, team1 |-> Slot("1", "K"), team2 |-> Slot("3", "DEIJL")],
                [match |-> 16, team1 |-> Slot("2", "D"), team2 |-> Slot("2", "G")] >>,
     r16 |-> [i \in 1..8 |-> [match |-> 16 + i, prevMatches |-> << 2 * i - 1, 2 * i >>]],
     qf |-> [i \in 1..4 |-> [match |-> 24 + i, prevMatches |-> << 15 + 2 * i, 16 + 2 * i >>]],
     sf |-> [i \in 1..2 |-> [match |-> 28 + i, prevMatches |-> << 23 + 2 * i, 24 + 2 * i >>]],
     final |-> << [match |-> 31, prevMatches |-> << 29, 30 >>] >>]

TournamentMatchIds == 1..31

\* slot.slice(1).split(''): the group letters of a third-place pool
SplitChars(pool) ==
    CASE pool = "ABCDF" -> << "A", "B", "C", "D", "F" >>
      [] pool = "CDFGH" -> << "C", "D", "F", "G", "H" >>
      [] pool = "CEFHI" -> << "C", "E", "F", "H", "I" >>
      [] pool = "EHIJK" -> << "E", "H", "I", "J", "K" >>
      [] pool = "BEFIJ" -> << "B", "E", "F", "I", "J" >>
      [] pool = "AEHIJ" -> << "A", "E", "H", "I", "J" >>
      [] pool = "EFGIJ" -> << "E", "F", "G", "I", "J" >>
      [] pool = "DEIJL" -> << "D", "E", "I", "J", "L" >>
      [] pool = "" -> <<>>
      [] OTHER -> << pool >>

\* parseSlot: pos is -1 (NaN) when the first character is not a digit
parseSlot(slot) ==
    IF slot.head = "3"
    THEN [pos |-> 3, pool |-> SplitChars(slot.tail), group |-> "undefined"]
    ELSE [pos |-> ParseInt(slot.head), pool |-> <<>>, group |-> slot.tail]

\* The number of third-place teams that advance: thirdPlaceTeams.slice(0, 8).
QualifyingThirdsCount == 8

\* The results of the six matches of a group that the model draws.
ResultsChalk == [k \in 1..6 |-> "win"]
ResultsWeakThird == [k \in 1..6 |-> IF k = 6 THEN "draw" ELSE "win"]
ResultsTightThird == [k \in 1..6 |-> IF k = 4 THEN "draw" ELSE "win"]

\* The draws of one iteration: groups A, B and G finish as listed or with a
\* one-point third, group L as listed or with a four-point third.
GroupResultChoices ==
    {[g \in GroupSet |-> CASE g = "A" -> ra
                           [] g = "B" -> rb
                           [] g = "G" -> rg
                           [] g = "L" -> rl
                           [] OTHER -> ResultsChalk] :
        ra \in {ResultsChalk, ResultsWeakThird},
        rb \in {ResultsChalk, ResultsWeakThird},
        rg \in {ResultsChalk, ResultsWeakThird},
        rl \in {ResultsChalk, ResultsTightThird}}

\* simulateKnockoutMatch returns 1 or 2; the model draws the same side in
\* every match of an iteration.
KnockoutDraws == {[m \in TournamentMatchIds |-> 1], [m \in TournamentMatchIds |-> 2]}

\* groupStandings[groupName] = simulateGroup(teams)
groupStandings(res) == [g \in GroupSet |-> simulateGroup(allTeams[g], res[g])]

\* if (standings[2]) thirdPlaceTeams.push({...standings[2], group: groupName})
RECURSIVE ThirdsFrom(_, _)
ThirdsFrom(gst, i) ==
    IF i > Len(GroupNames) THEN <<>>
    ELSE LET g == GroupNames[i]
         IN (IF Len(gst[g]) >= 3
             THEN << [code |-> gst[g][3].code, points |-> gst[g][3].points,
                      gd |-> gst[g][3].gd, elo |-> gst[g][3].elo, group |-> g] >>
             ELSE <<>>)
            \o ThirdsFrom(gst, i + 1)

thirdPlaceTeams(gst) == ThirdsFrom(gst, 1)

\* qualifyingThirds without the sort: the first eight in group order.
qualifyingThirds_Unsorted(gst) ==
    LetConst(LAMBDA thirds :
                SubSeq(thirds, 1, IF Len(thirds) < QualifyingThirdsCount
                                  THEN Len(thirds) ELSE QualifyingThirdsCount),
             thirdPlaceTeams(gst))

\* thirdPlaceTeams.sort(points, gd, elo).slice(0, 8)
qualifyingThirds(gst) ==
    LetConst(LAMBDA sorted :
                SubSeq(sorted, 1, IF Len(sorted) < QualifyingThirdsCount
                                  THEN Len(sorted) ELSE QualifyingThirdsCount),
             SortStandings(thirdPlaceTeams(gst)))

\* qualifyingThirds.find(t => slot2.pool.includes(t.group)): its index, 0 if none
FindThird(q, pool) ==
    LET hits == {i \in 1..Len(q) : q[i].group \in SeqToSet(pool)}
    IN IF hits = {} THEN 0 ELSE CHOOSE i \in hits : \A j \in hits : i <= j

\* A splice that removes nothing.
RemoveAt_Keep(q, idx) == q

\* qualifyingThirds.splice(idx, 1)
RemoveAt(q, idx) == SubSeq(q, 1, idx - 1) \o SubSeq(q, idx + 1, Len(q))

\* groupStandings[slot.group][k]: "TypeError" when the group has no standings,
\* "null" (undefined) when the standings are shorter
StandingAt(gst, group, k) ==
    IF group \notin DOMAIN gst THEN "TypeError"
    ELSE IF Len(gst[group]) < k THEN "null"
    ELSE gst[group][k].code

\* team1 / team2 of a Round-of-32 match before the third-place lookup
SlotTeam(gst, slot) ==
    IF slot.pos = 2 THEN StandingAt(gst, slot.group, 2)
    ELSE IF slot.pos = 1 THEN StandingAt(gst, slot.group, 1)
    ELSE "null"

\* The loop `for (const match of knockout.r32)` from index i on: q is what is
\* left of qualifyingThirds, w the winners so far (match -> code, "null" when
\* the match was skipped), o the two teams of each match so far.
RECURSIVE BuildR32(_, _, _, _, _, _, _)
BuildR32(r32, gst, win, i, q, w, o) ==
    IF i > Len(r32) THEN [status |-> "ok", winners |-> w, teams |-> o]
    ELSE LET match == r32[i]
             slot1 == parseSlot(match.team1)
             slot2 == parseSlot(match.team2)
             team1 == SlotTeam(gst, slot1)
             idx == IF slot2.pos = 3 THEN FindThird(q, slot2.pool) ELSE 0
             team2 == IF slot2.pos = 3
                      THEN (IF idx > 0 THEN q[idx].code ELSE "null")
                      ELSE SlotTeam(gst, slot2)
             rest == IF idx > 0 THEN RemoveAt(q, idx) ELSE q
         IN IF team1 = "TypeError" \/ team2 = "TypeError"
            THEN [status |-> "TypeError", winners |-> w, teams |-> o]
            ELSE BuildR32(r32, gst, win, i + 1, rest,
                          [w EXCEPT ![match.match] =
                              IF team1 /= "null" /\ team2 /= "null"
                              THEN (IF win[match.match] = 1 THEN team1 ELSE team2)
                              ELSE "null"],
                          [o EXCEPT ![match.match] = << team1, team2 >>])

NoWinners == [m \in TournamentMatchIds |-> "null"]
NoTeams == [m \in TournamentMatchIds |-> << "null", "null" >>]

\* PlayRound that lets a team whose opponent is missing advance unopposed.
PlayRound_Walkover(matches, prevWinners, win) ==
    [m \in TournamentMatchIds |->
        IF \E i \in 1..Len(matches) : matches[i].match = m
        THEN LET match == matches[CHOOSE i \in 1..Len(matches) : matches[i].match = m]
                 team1 == prevWinners[match.prevMatches[1]]
                 team2 == prevWinners[match.prevMatches[2]]
             IN IF team1 /= "null" /\ team2 /= "null"
                THEN (IF win[m] = 1 THEN team1 ELSE team2)
                ELSE IF team1 /= "null" THEN team1 ELSE team2
        ELSE "null"]

\* One later round: a match is played when both its predecessors in the
\* previous round's winners have a winner.
PlayRound(matches, prevWinners, win) ==
    [m \in TournamentMatchIds |->
        IF \E i \in 1..Len(matches) : matches[i].match = m
        THEN LET match == matches[CHOOSE i \in 1..Len(matches) : matches[i].match = m]
                 team1 == prevWinners[match.prevMatches[1]]
                 team2 == prevWinners[match.prevMatches[2]]
             IN IF team1 /= "null" /\ team2 /= "null"
                THEN (IF win[m] = 1 THEN team1 ELSE team2)
                ELSE "null"
        ELSE "null"]

\* Everything one iteration determines before it updates the counters.
TournamentRun(r32, res, win) ==
    LetConst(LAMBDA gst :
      LetConst(LAMBDA q :
        LetConst(LAMBDA b :
          LetConst(LAMBDA r16w :
            LetConst(LAMBDA qfw :
              LetConst(LAMBDA sfw :
                [status |-> b.status, standings |-> gst, thirds |-> q,
                 r32Teams |-> b.teams,
                 r32Winners |-> b.winners, r16Winners |-> r16w,
                 qfWinners |-> qfw, sfWinners |-> sfw,
                 champion |-> PlayRound(tournamentKnockout.final, sfw, win)[31]],
                PlayRound(tournamentKnockout.sf, qfw, win)),
              PlayRound(tournamentKnockout.qf, r16w, win)),
            PlayRound(tournamentKnockout.r16, b.winners, win)),
          BuildR32(r32, gst, win, 1, q, NoWinners, NoTeams)),
        qualifyingThirds(gst)),
      groupStandings(res))

\* how many matches the map of winners credits to the team
WinsIn(w, c) == Cardinality({m \in TournamentMatchIds : w[m] = c})

ZeroStats ==
    [c \in TournamentCodes |->
        [positions |-> <<0, 0, 0, 0>>, r32Count |-> 0, r16Count |-> 0,
         qfCount |-> 0, sfCount |-> 0, finalCount |-> 0, winCount |-> 0]]

\* AddRun that leaves out the mark of the qualifying third-place teams.
AddRun_ThirdsUnmarked(stats, run) ==
    [c \in DOMAIN stats |->
        LET g == CHOOSE x \in GroupSet : c \in Codes(allTeams[x])
            st == run.standings[g]
            rank == CHOOSE k \in 1..Len(st) : st[k].code = c
        IN [positions |-> [k \in 1..4 |-> stats[c].positions[k] + (IF k = rank THEN 1 ELSE 0)],
            r32Count |-> stats[c].r32Count + (IF rank <= 2 THEN 1 ELSE 0),
            r16Count |-> stats[c].r16Count + WinsIn(run.r32Winners, c),
            qfCount |-> stats[c].qfCount + WinsIn(run.r16Winners, c),
            sfCount |-> stats[c].sfCount + WinsIn(run.qfWinners, c),
            finalCount |-> stats[c].finalCount + WinsIn(run.sfWinners, c),
            winCount |-> stats[c].winCount + (IF run.champion = c THEN 1 ELSE 0)]]

\* teamStats after the counters of one iteration have been added
AddRun(stats, run) ==
    [c \in DOMAIN stats |->
        LET g == CHOOSE x \in GroupSet : c \in Codes(allTeams[x])
            st == run.standings[g]
            rank == CHOOSE k \in 1..Len(st) : st[k].code = c
        IN [positions |-> [k \in 1..4 |-> stats[c].positions[k] + (IF k = rank THEN 1 ELSE 0)],
            r32Count |-> stats[c].r32Count + (IF rank <= 2 THEN 1 ELSE 0)
                         + Cardinality({i \in 1..Len(run.thirds) : run.thirds[i].code = c}),
            r16Count |-> stats[c].r16Count + WinsIn(run.r32Winners, c),
            qfCount |-> stats[c].qfCount + WinsIn(run.r16Winners, c),
            sfCount |-> stats[c].sfCount + WinsIn(run.qfWinners, c),
            finalCount |-> stats[c].finalCount + WinsIn(run.sfWinners, c),
            winCount |-> stats[c].winCount + (IF run.champion = c THEN 1 ELSE 0)]]

InitTournament ==
    /\ groupSim = GroupSimDistinct
    /\ bracketOverrides = NoOverrides
    /\ InitServerIdle
    /\ simulator = "simulateTournament"
    /\ sim = 0
    /\ positions = <<>>
    /\ teamStats = ZeroStats
    /\ args = [r32 |-> tournamentKnockout.r32]
    /\ result = "none"

\* One iteration of the loop of simulateTournament.
TournamentSim(res, win) ==
    /\ sim < MaxSims
    /\ result = "none"
    /\ \E run \in {TournamentRun(args.r32, res, win)} :
           /\ run.status = "ok"
           /\ teamStats' = AddRun(teamStats, run)
    /\ sim' = sim + 1
    /\ UNCHANGED <<simulator, positions, args, result>>

NextTournament ==
    \E res \in GroupResultChoices, win \in KnockoutDraws :
        TournamentSim(res, win) /\ UNCHANGED <<bracketVars, serverVars>>

SpecTournament == InitTournament /\ [][NextTournament]_vars

\* An iteration that reads a standing of a group that does not exist:
\* groupStandings[slot.group] is undefined and indexing it throws, which ends
\* simulateTournament.
TournamentThrow(res, win) ==
    /\ sim < MaxSims
    /\ result = "none"
    /\ TournamentRun(args.r32, res, win).status = "TypeError"
    /\ result' = "TypeError"
    /\ UNCHANGED <<simulator, sim, positions, teamStats, args>>

\* knockout.r32 with the first slot's position character replaced, or with
\* the first slot naming a group that does not exist.
WithFirstSlot(slot) ==
    [tournamentKnockout.r32 EXCEPT ![1] = [@ EXCEPT !.team1 = slot]]

\* knockout.r32 with the two slots of its second match exchanged: the
\* third-place pool is the match's first slot.
PoolInFirstSlot ==
    [tournamentKnockout.r32 EXCEPT
        ![2] = [@ EXCEPT !.team1 = Slot("3", "ABCDF"), !.team2 = Slot("1", "E")]]

R32Definitions ==
    {tournamentKnockout.r32, WithFirstSlot(Slot("X", "A")), WithFirstSlot(Slot("2", "Z")),
     PoolInFirstSlot}

InitSlots ==
    /\ groupSim = GroupSimDistinct
    /\ bracketOverrides = NoOverrides
    /\ InitServerIdle
    /\ simulator = "simulateTournament"
    /\ sim = 0
    /\ positions = <<>>
    /\ teamStats = ZeroStats
    /\ args \in {[r32 |-> d] : d \in R32Definitions}
    /\ result = "none"

NextSlots ==
    \/ \E res \in GroupResultChoices, win \in KnockoutDraws :
           TournamentSim(res, win) /\ UNCHANGED <<bracketVars, serverVars>>
    \/ \E res \in GroupResultChoices, win \in KnockoutDraws :
           TournamentThrow(res, win) /\ UNCHANGED <<bracketVars, serverVars>>

SpecSlots == InitSlots /\ [][NextSlots]_vars

-----------------------------------------------------------------------------
(* sosCalculator.js: the closed-form playoff resolvers simulateBracket and  *)
(* simulateUEFAPath, and the strength totals of calculateAllSoS.            *)

RInt(n) == <<n, 1>>
RNeg(p) == <<0 - p[1], p[2]>>
RSub(p, q) == RAdd(p, RNeg(q))
RLess(p, q) == LET g == GCD(p[2], q[2])
               IN p[1] * (q[2] \div g) < q[1] * (p[2] \div g)

\* Math.round of a rational: floor(x + 1/2)
RRound(p) == (2 * p[1] + p[2]) \div (2 * p[2])

\* 10 * 10^(r/16) for r = 0..15, to the nearest integer
Pow10Sixteenths ==
    << 10, 12, 13, 15, 18, 21, 24, 27, 32, 37, 42, 49, 56, 65, 75, 87 >>

\* Math.pow(10, x / 400) for a rating gap x >= 0: the exponent is carried to
\* the nearest sixteenth and the power to one decimal; a gap that is a
\* multiple of 400 gives the exact power of ten.
PowTen(x) ==
    LET k == (2 * x[1] + 25 * x[2]) \div (50 * x[2])
        q == k \div 16
        r == k % 16
    IN Norm((CASE q = 0 -> 1 [] q = 1 -> 10 [] q = 2 -> 100 [] q = 3 -> 1000)
                * Pow10Sixteenths[r + 1], 10)

\* eloWinProbability that computes every gap as if the first team were the
\* weaker one: W(a, b) + W(b, a) is then below 1 for unequal ratings.
eloWinProbability_NoComplement(rating1, rating2) ==
    LET d == RSub(rating2, rating1)
        t == PowTen(IF d[1] >= 0 THEN d ELSE RNeg(d))
    IN Norm(t[2], t[1] + t[2])

\* 1 / (1 + Math.pow(10, (rating2 - rating1) / 400)); the ratings are rationals
eloWinProbability(rating1, rating2) ==
    LET d == RSub(rating2, rating1)
    IN IF d[1] >= 0
       THEN LET t == PowTen(d) IN Norm(t[2], t[1] + t[2])
       ELSE LET t == PowTen(RNeg(d)) IN Norm(t[1], t[1] + t[2])

\* ratings[code] || 1400
DefaultRating == 1400
RatingOrDefault(ratings, code) ==
    IF code \in DOMAIN ratings THEN ratings[code] ELSE DefaultRating

\* ratings[code] || 0 and expectedElos[code]?.expectedElo || 0
RatingOrZero(ratings, code) ==
    IF code \in DOMAIN ratings THEN ratings[code] ELSE 0

\* rows.sort((a, b) => b.prob - a.prob), stable
RECURSIVE InsertByProb(_, _)
InsertByProb(sorted, x) ==
    IF sorted = <<>> THEN <<x>>
    ELSE IF RLess(Head(sorted).prob, x.prob) THEN <<x>> \o sorted
    ELSE LetConst(LAMBDA rest : <<Head(sorted)>> \o InsertByProb(rest, x), Tail(sorted))

RECURSIVE SortByProb(_)
SortByProb(seq) ==
    IF seq = <<>> THEN <<>>
    ELSE LetConst(LAMBDA sorted : InsertByProb(sorted, seq[Len(seq)]),
                  SortByProb(SubSeq(seq, 1, Len(seq) - 1)))

MinOf(S) == CHOOSE x \in S : \A y \in S : x <= y
MaxOf(S) == CHOOSE x \in S : \A y \in S : x >= y

simulateBracket(bracket, ratings) ==
    LET seededCode == bracket.seeded
        seededElo == RatingOrDefault(ratings, seededCode)
        unseededCodes == bracket.unseeded
        team1Elo == RatingOrDefault(ratings, unseededCodes[1])
        team2Elo == RatingOrDefault(ratings, unseededCodes[2])
    IN LetConst(LAMBDA team1WinProb :
         LetConst(LAMBDA semifinalWinnerElo :
           LetConst(LAMBDA seededWinProb :
             LetConst(LAMBDA teamProbs :
                 [expectedElo |->
                      RRound(RAdd(RMul(seededWinProb, RInt(seededElo)),
                                  RMul(RSub(ROne, seededWinProb), semifinalWinnerElo))),
                  minElo |-> MinOf({seededElo, team1Elo, team2Elo}),
                  maxElo |-> MaxOf({seededElo, team1Elo, team2Elo}),
                  teams |-> SortByProb(teamProbs)],
               << [code |-> seededCode, elo |-> seededElo, prob |-> seededWinProb],
                  [code |-> unseededCodes[1], elo |-> team1Elo,
                   prob |-> RMul(RSub(ROne, seededWinProb), team1WinProb)],
                  [code |-> unseededCodes[2], elo |-> team2Elo,
                   prob |-> RMul(RSub(ROne, seededWinProb),
                                 RSub(ROne, team1WinProb))] >>),
             eloWinProbability(RInt(seededElo), semifinalWinnerElo)),
           RAdd(RMul(team1WinProb, RInt(team1Elo)),
                RMul(RSub(ROne, team1WinProb), RInt(team2Elo)))),
         eloWinProbability(RInt(team1Elo), RInt(team2Elo)))

\* SortByElo that leaves the teams in the order of the input
SortByElo_InputOrder(teamElos) == [i \in 1..Len(teamElos) |-> teamElos[i]]

\* [...teamElos].sort((a, b) => b.elo - a.elo), stable
SortByElo(teamElos) ==
    LET sorted == SortDesc([i \in 1..Len(teamElos) |->
                               [key |-> teamElos[i].elo, val |-> teamElos[i]]])
    IN [i \in 1..Len(sorted) |-> sorted[i].val]

RECURSIVE ExpectedEloSum(_, _)
ExpectedEloSum(teamProbs, i) ==
    IF i > Len(teamProbs) THEN RZero
    ELSE RAdd(RMul(RInt(teamProbs[i].elo), teamProbs[i].prob),
              ExpectedEloSum(teamProbs, i + 1))

\* the four path-win probabilities of the seeds t1..t4, in seed order
PathWinProbs(t1, t2, t3, t4) ==
    LET W(a, b) == eloWinProbability(RInt(a.elo), RInt(b.elo))
    IN LetConst(LAMBDA sf1_t1Win :
         LetConst(LAMBDA sf2_t2Win :
            << [code |-> t1.code, elo |-> t1.elo,
                prob |-> RMul(sf1_t1Win,
                              RAdd(RMul(sf2_t2Win, W(t1, t2)),
                                   RMul(RSub(ROne, sf2_t2Win), W(t1, t3))))],
               [code |-> t2.code, elo |-> t2.elo,
                prob |-> RMul(sf2_t2Win,
                              RAdd(RMul(sf1_t1Win, W(t2, t1)),
                                   RMul(RSub(ROne, sf1_t1Win), W(t2, t4))))],
               [code |-> t3.code, elo |-> t3.elo,
                prob |-> RMul(RSub(ROne, sf2_t2Win),
                              RAdd(RMul(sf1_t1Win, W(t3, t1)),
                                   RMul(RSub(ROne, sf1_t1Win), W(t3, t4))))],
               [code |-> t4.code, elo |-> t4.elo,
                prob |-> RMul(RSub(ROne, sf1_t1Win),
                              RAdd(RMul(sf2_t2Win, W(t4, t2)),
                                   RMul(RSub(ROne, sf2_t2Win), W(t4, t3))))] >>,
            W(t2, t3)),
         W(t1, t4))

simulateUEFAPath(path, ratings) ==
    LetConst(LAMBDA teamElos :
      LetConst(LAMBDA sorted :
        LetConst(LAMBDA teamProbs :
            [expectedElo |-> RRound(ExpectedEloSum(teamProbs, 1)),
             minElo |-> MinOf({teamElos[i].elo : i \in 1..Len(teamElos)}),
             maxElo |-> MaxOf({teamElos[i].elo : i \in 1..Len(teamElos)}),
             teams |-> SortByProb(teamProbs)],
          PathWinProbs(sorted[1], sorted[2], sorted[3], sorted[4])),
        SortByElo(teamElos)),
      [i \in 1..Len(path.teams) |->
          [code |-> path.teams[i], elo |-> RatingOrDefault(ratings, path.teams[i])]])

\* groupData of the playoff functions: one intercontinental bracket, one
\* UEFA path, and the group the bracket's winner is drawn into.
PlayoffCodes == {"p1", "p2", "p3", "p4"}
ConfirmedCodes == {"x1", "x2", "x3"}
PlaceholderCodes == {"FIFA_1"}

playoffData ==
    [groups |-> [X |-> [teams |-> <<"x1", "x2", "x3", "FIFA_1">>]],
     intercontinental |->
         [seeded |-> "p1", unseeded |-> <<"p2", "p3">>,
          winner |-> "FIFA_1", destinationGroup |-> "X"],
     uefa |-> [teams |-> <<"p1", "p2", "p3", "p4">>]]

\* code.startsWith('UEFA_') || code.startsWith('FIFA_')
IsPlaceholder(code) == code \in PlaceholderCodes

RECURSIVE EloTotal(_, _, _, _)
\* the sum of (expectedElos[code]?.expectedElo || 0) over the placeholders
\* and of (ratings[code] || 0) over the other codes, skipping one code
EloTotal(codes, ratings, expectedElos, skip) ==
    IF codes = <<>> THEN 0
    ELSE (IF Head(codes) = skip THEN 0
          ELSE IF IsPlaceholder(Head(codes))
               THEN (IF Head(codes) \in DOMAIN expectedElos
                     THEN expectedElos[Head(codes)].expectedElo ELSE 0)
               ELSE RatingOrZero(ratings, Head(codes)))
         + EloTotal(Tail(codes), ratings, expectedElos, skip)

\* rows.sort((a, b) => b.groupOpponentSoS - a.groupOpponentSoS), stable
SortBySoS(rows) ==
    LET sorted == SortDesc([i \in 1..Len(rows) |->
                               [key |-> rows[i].groupOpponentSoS, val |-> rows[i]]])
    IN [i \in 1..Len(sorted) |-> sorted[i].val]

\* calculateAllSoS for the one group and the one bracket of playoffData
calculateAllSoS(groupData, ratings) ==
    LetConst(LAMBDA bracket :
      LetConst(LAMBDA expectedElos :
        LetConst(LAMBDA groupStrength :
          LetConst(LAMBDA confirmed :
            LetConst(LAMBDA teamSoS :
                [teams |-> SortBySoS(teamSoS),
                 groups |-> << [group |-> "X", strength |-> groupStrength] >>,
                 expectedElos |-> expectedElos],
              [i \in 1..Len(confirmed) |->
                  [code |-> confirmed[i], group |-> "X",
                   elo |-> RatingOrZero(ratings, confirmed[i]),
                   groupOpponentSoS |->
                       RRound(<<EloTotal(groupData.groups.X.teams, ratings,
                                         expectedElos, confirmed[i]), 3>>),
                   groupStrength |-> groupStrength]]),
            SelectSeq(groupData.groups.X.teams, LAMBDA c : ~IsPlaceholder(c))),
          RRound(<<EloTotal(groupData.groups.X.teams, ratings, expectedElos, "none"), 4>>)),
        [c \in {groupData.intercontinental.winner} |->
            [expectedElo |-> bracket.expectedElo,
             minElo |-> bracket.minElo, maxElo |-> bracket.maxElo,
             favoriteCode |-> bracket.teams[1].code,
             favoriteProb |-> bracket.teams[1].prob]]),
      simulateBracket(groupData.intercontinental, ratings))

RatingValues == {1600, 2000}

\* ratings: a map that may lack a rating for the first confirmed team and
\* for any playoff participant
RatingMaps ==
    UNION {{r @@ [x2 |-> 1600, x3 |-> 1200] : r \in [S -> RatingValues]} :
              S \in SUBSET (PlayoffCodes \cup {"x1"})}

InitPlayoffs ==
    /\ groupSim = GroupSimDistinct
    /\ bracketOverrides = NoOverrides
    /\ InitServerIdle
    /\ simulator = "call"
    /\ sim = 0
    /\ positions = <<>>
    /\ teamStats = <<>>
    /\ args \in {[groupData |-> playoffData, ratings |-> r] : r \in RatingMaps}
    /\ result = "none"

ResolveBracket ==
    /\ simulator = "call"
    /\ result' = simulateBracket(args.groupData.intercontinental, args.ratings)
    /\ simulator' = "simulateBracket"
    /\ UNCHANGED <<sim, positions, teamStats, args>>

ResolvePath ==
    /\ simulator = "call"
    /\ result' = simulateUEFAPath(args.groupData.uefa, args.ratings)
    /\ simulator' = "simulateUEFAPath"
    /\ UNCHANGED <<sim, positions, teamStats, args>>

AllSoS ==
    /\ simulator = "call"
    /\ result' = calculateAllSoS(args.groupData, args.ratings)
    /\ simulator' = "calculateAllSoS"
    /\ UNCHANGED <<sim, positions, teamStats, args>>

NextPlayoffs ==
    \/ ResolveBracket /\ UNCHANGED <<bracketVars, serverVars>>
    \/ ResolvePath /\ UNCHANGED <<bracketVars, serverVars>>
    \/ AllSoS /\ UNCHANGED <<bracketVars, serverVars>>

SpecPlayoffs == InitPlayoffs /\ [][NextPlayoffs]_vars

-----------------------------------------------------------------------------
(* getMatchProbabilities and the match sampler simulateMatch (the same code *)
(* as getMatchProbabilities and simulateGroupMatch of the page).            *)

RMax(p, q) == IF RLess(p, q) THEN q ELSE p

\* getMatchProbabilities without the floor of the draw probability
getMatchProbabilities_NoFloor(teamElo, oppElo) ==
    LET winExpectancy == eloWinProbability(RInt(teamElo), RInt(oppElo))
        eloDiff == IF teamElo >= oppElo THEN teamElo - oppElo ELSE oppElo - teamElo
        drawProb == RSub(<<27, 100>>, RMul(RInt(eloDiff), <<4, 10000>>))
    IN [winProb |-> RMul(winExpectancy, RSub(ROne, drawProb)),
        drawProb |-> drawProb,
        lossProb |-> RMul(RSub(ROne, winExpectancy), RSub(ROne, drawProb))]

getMatchProbabilities(teamElo, oppElo) ==
    LET winExpectancy == eloWinProbability(RInt(teamElo), RInt(oppElo))
        eloDiff == IF teamElo >= oppElo THEN teamElo - oppElo ELSE oppElo - teamElo
        drawProb == RMax(<<3, 20>>, RSub(<<27, 100>>, RMul(RInt(eloDiff), <<4, 10000>>)))
    IN [winProb |-> RMul(winExpectancy, RSub(ROne, drawProb)),
        drawProb |-> drawProb,
        lossProb |-> RMul(RSub(ROne, winExpectancy), RSub(ROne, drawProb))]

\* simulateMatch with rand the value of Math.random()
simulateMatch(teamElo, oppElo, rand) ==
    LET probs == getMatchProbabilities(teamElo, oppElo)
    IN IF RLess(rand, probs.winProb) THEN "win"
       ELSE IF RLess(rand, RAdd(probs.winProb, probs.drawProb)) THEN "draw"
       ELSE "loss"

MatchRatings == {1200, 1400, 1500, 1600, 2000}

\* the values of Math.random() of the model: twentieths of [0, 1)
RandomSteps == 20
RandomDraws == {Norm(k, RandomSteps) : k \in 0..(RandomSteps - 1)}

InitMatch ==
    /\ groupSim = GroupSimDistinct
    /\ bracketOverrides = NoOverrides
    /\ InitServerIdle
    /\ simulator = "call"
    /\ sim = 0
    /\ positions = <<>>
    /\ teamStats = <<>>
    /\ args \in {[teamElo |-> a, oppElo |-> b, rand |-> r] :
                    a \in MatchRatings, b \in MatchRatings, r \in RandomDraws}
    /\ result = "none"

MatchProbabilities ==
    /\ simulator = "call"
    /\ result' = getMatchProbabilities(args.teamElo, args.oppElo)
    /\ simulator' = "getMatchProbabilities"
    /\ UNCHANGED <<sim, positions, teamStats, args>>

SampleMatch ==
    /\ simulator = "call"
    /\ result' = simulateMatch(args.teamElo, args.oppElo, args.rand)
    /\ simulator' = "simulateMatch"
    /\ UNCHANGED <<sim, positions, teamStats, args>>

NextMatch ==
    \/ MatchProbabilities /\ UNCHANGED <<bracketVars, serverVars>>
    \/ SampleMatch /\ UNCHANGED <<bracketVars, serverVars>>

SpecMatch == InitMatch /\ [][NextMatch]_vars

-----------------------------------------------------------------------------
(* The server: getCachedData and the routes GET /api/rankings and           *)
(* GET /api/sos.  A handler runs without interruption up to an await on a   *)
(* fetch that is pending; other handlers run until the fetch settles.  The  *)
(* parsed World.tsv is identified by the version of the file it was parsed  *)
(* from, and the output of simulateTournament by the version of the         *)
(* rankings it was given.  The clock counts in units of half the TTL.       *)

\* const CACHE_TTL = 60 * 60 * 1000, in units of the clock
CACHE_TTL == 2

MaxClock == 4
MaxVersion == 2

Routes == {"rankings", "sos"}

\* cache[key].data && (now - cache[key].timestamp) < CACHE_TTL
Fresh(c, key, now) == c[key].data /= NoData /\ now - c[key].timestamp < CACHE_TTL

\* getCachedData that fetches whenever it is called.
getCachedData_NoTTL(s, key, now) ==
    [s EXCEPT !.req.key = key, !.req.pc = "fetch", !.req.now = now]

\* getCachedData up to its await: the cached data is returned, or the fetch
\* is started and the handler is suspended with `now` bound
getCachedData(s, key, now) ==
    IF Fresh(s.cache, key, now)
    THEN [s EXCEPT !.req.key = key, !.req[key] = s.cache[key].data]
    ELSE [s EXCEPT !.req.key = key, !.req.pc = "fetch", !.req.now = now]

\* getCachedData from the point where fetchTSV settles: ok is whether the
\* fetch and the parser both succeeded
FetchSettled(s, ok, data) ==
    IF ok
    THEN [s EXCEPT !.cache[s.req.key] = [data |-> data, timestamp |-> s.req.now],
                   !.req[s.req.key] = data, !.req.pc = "run"]
    ELSE IF s.cache[s.req.key].data /= NoData
    THEN [s EXCEPT !.req[s.req.key] = s.cache[s.req.key].data, !.req.pc = "run"]
    ELSE [s EXCEPT !.req.pc = "done", !.req.status = 500]

\* The body of a route after its two awaits: GET /api/sos runs the simulation
\* on its local rankings when the stamps differ, and stamps it with
\* cache.rankings.timestamp.
RouteBody(s) ==
    IF s.req.route = "sos"
    THEN LET mc == IF s.monteCarloCache.rankingsTimestamp /= s.cache.rankings.timestamp
                   THEN [data |-> s.req.rankings,
                         rankingsTimestamp |-> s.cache.rankings.timestamp]
                   ELSE s.monteCarloCache
         IN [s EXCEPT !.monteCarloCache = mc, !.req.pc = "done", !.req.status = 200,
                      !.req.groupSimulation = mc.data]
    ELSE [s EXCEPT !.req.pc = "done", !.req.status = 200]

\* A running handler from the return of getCachedData(key) on, up to its next
\* pending fetch or its response.
Continue(s, now) ==
    IF s.req.pc /= "run" THEN s
    ELSE IF s.req.key = "rankings"
    THEN LetConst(LAMBDA t : IF t.req.pc /= "run" THEN t ELSE RouteBody(t),
                  getCachedData(s, "teams", now))
    ELSE RouteBody(s)

\* app.get(route, async (req, res) => ...): a handler is called
Request(r, route) ==
    /\ requests[r].pc \in {"idle", "done"}
    /\ \E s \in {Continue(getCachedData(
                     [cache |-> cache, monteCarloCache |-> monteCarloCache,
                      req |-> [IdleRequest EXCEPT !.route = route, !.pc = "run"]],
                     "rankings", clock), clock)} :
          /\ cache' = s.cache
          /\ monteCarloCache' = s.monteCarloCache
          /\ requests' = [requests EXCEPT ![r] = s.req]
    /\ UNCHANGED <<clock, remote>>

\* The pending fetchTSV of a handler settles and the handler runs on.
FetchSettles(r, ok) ==
    /\ requests[r].pc = "fetch"
    /\ \E s \in {Continue(FetchSettled(
                     [cache |-> cache, monteCarloCache |-> monteCarloCache,
                      req |-> requests[r]],
                     ok, IF requests[r].key = "rankings" THEN remote ELSE 1), clock)} :
          /\ cache' = s.cache
          /\ monteCarloCache' = s.monteCarloCache
          /\ requests' = [requests EXCEPT ![r] = s.req]
    /\ UNCHANGED <<clock, remote>>

\* Time passes.
Tick ==
    /\ clock < MaxClock
    /\ clock' = clock + 1
    /\ UNCHANGED <<cache, monteCarloCache, remote, requests>>

\* eloratings.net publishes new ratings.
RemoteUpdate ==
    /\ remote < MaxVersion
    /\ remote' = remote + 1
    /\ UNCHANGED <<cache, monteCarloCache, clock, requests>>

InitServer == InitBracket /\ InitSimIdle /\ InitServerIdle

NextServer ==
    \/ \E r \in RequestIds, route \in Routes :
           Request(r, route) /\ UNCHANGED <<bracketVars, simVars>>
    \/ \E r \in RequestIds, ok \in BOOLEAN :
           FetchSettles(r, ok) /\ UNCHANGED <<bracketVars, simVars>>
    \/ Tick /\ UNCHANGED <<bracketVars, simVars>>
    \/ RemoteUpdate /\ UNCHANGED <<bracketVars, simVars>>

SpecServer == InitServer /\ [][NextServer]_vars

-----------------------------------------------------------------------------
(* Vocabulary of the claims *)

\* possibleOccupants(matchId): the codes of the teams that can occupy the match
possibleOccupants(ov, gs, matchId) == Codes(getPossibleTeamsFromMatch(ov, gs, matchId))

\* the matches that feed matchId, directly or through other matches
RECURSIVE UpstreamOf(_)
UpstreamOf(matchId) ==
    PrevOf(matchId) \cup UNION {UpstreamOf(p) : p \in PrevOf(matchId)}

\* the matches strictly downstream of matchId
DownstreamOf(matchId) == {d \in MatchIds : matchId \in UpstreamOf(d)}

R32Ids == {m \in MatchIds : m <= R32MaxId}
LockedMatches(ov) == {m \in MatchIds : ov[m] /= NoTeam}
LockedTo(ov, code) == {m \in MatchIds : ov[m] /= NoTeam /\ ov[m].code = code}

-----------------------------------------------------------------------------
(* C1: a click on a team that is not a possible occupant of the match       *)
(* leaves the override map as it was.                                       *)
C1_RejectedClickKeepsOverrides ==
    [][\A matchId \in MatchIds, team \in AllTeams :
          (/\ BracketClick(matchId, team)
           /\ team.code \notin possibleOccupants(bracketOverrides, groupSim, matchId))
          => bracketOverrides' = bracketOverrides]_vars

-----------------------------------------------------------------------------
(* C2: locking a possible occupant at a Round-of-32 match and clicking the  *)
(* same team in the same match again gives back the override map and every  *)
(* cumulative win probability of before the first click.                    *)

\* team can be clicked in matchId, is a possible occupant and is not its lock
CanLock(ov, gs, matchId, team) ==
    /\ team \in ClickableTeams(ov, gs, matchId)
    /\ team.code \in possibleOccupants(ov, gs, matchId)
    /\ ~(ov[matchId] /= NoTeam /\ ov[matchId].code = team.code)

\* the click locks the team at matchId
LocksAt(ov, gs, matchId, team) ==
    /\ CanLock(ov, gs, matchId, team)
    /\ handleBracketClick(ov, gs, matchId, team)[matchId] = [code |-> team.code, elo |-> team.elo]

TwoClicks(ov, gs, matchId, team) ==
    handleBracketClick(handleBracketClick(ov, gs, matchId, team), gs, matchId, team)

SameProbabilities(ov1, ov2, gs, matches) ==
    \A m \in matches : \A t \in AllTeams :
        getCumulativeProbWin(ov1, gs, t.code, m) = getCumulativeProbWin(ov2, gs, t.code, m)

\* C2 as claimed: from any reachable override state.
C2_LockUnlockRoundTrip ==
    \A matchId \in R32Ids : \A team \in AllTeams :
        LocksAt(bracketOverrides, groupSim, matchId, team)
        => LET after == TwoClicks(bracketOverrides, groupSim, matchId, team)
           IN /\ after = bracketOverrides
              /\ SameProbabilities(after, bracketOverrides, groupSim, DownstreamOf(matchId))

\* C2 as amended: from an override state with no override downstream of the match.
C2_LockUnlockRoundTripNoDownstream ==
    \A matchId \in R32Ids : \A team \in AllTeams :
        (/\ LocksAt(bracketOverrides, groupSim, matchId, team)
         /\ \A d \in DownstreamOf(matchId) : bracketOverrides[d] = NoTeam)
        => LET after == TwoClicks(bracketOverrides, groupSim, matchId, team)
           IN /\ after = bracketOverrides
              /\ SameProbabilities(after, bracketOverrides, groupSim, DownstreamOf(matchId))

\* a state with overrides elsewhere in which a Round-of-32 lock changes the
\* probabilities downstream and the second click brings the map back
C2_Witness ==
    \E matchId \in R32Ids : \E team \in AllTeams :
        /\ LocksAt(bracketOverrides, groupSim, matchId, team)
        /\ \A d \in DownstreamOf(matchId) : bracketOverrides[d] = NoTeam
        /\ LockedMatches(bracketOverrides) /= {}
        /\ ~SameProbabilities(handleBracketClick(bracketOverrides, groupSim, matchId, team),
                              bracketOverrides, groupSim, DownstreamOf(matchId))
        /\ TwoClicks(bracketOverrides, groupSim, matchId, team) = bracketOverrides

-----------------------------------------------------------------------------
(* C3 *)

\* the teams the two slots of a Round-of-32 match resolve to
SlotCodes(gs, matchId) ==
    {resolveBracketSlot(gs, findMatch(matchId).team1).code,
     resolveBracketSlot(gs, findMatch(matchId).team2).code} \ {NoTeam.code}

\* matchId and a chain of predecessors down to the team's Round-of-32 match
\* are all locked to the team
RECURSIVE LockedPathTo(_, _, _, _)
LockedPathTo(ov, gs, code, matchId) ==
    /\ ov[matchId] /= NoTeam
    /\ ov[matchId].code = code
    /\ IF matchId <= R32MaxId
       THEN code \in SlotCodes(gs, matchId)
       ELSE \E p \in PrevOf(matchId) : LockedPathTo(ov, gs, code, p)

\* C3: a team that is the override of a match later than the Round of 32 is
\* the override of every match on its path from its Round-of-32 match to it.
C3_OverridePathConsistent ==
    \A matchId \in MatchIds \ R32Ids :
        bracketOverrides[matchId] /= NoTeam
        => LockedPathTo(bracketOverrides, groupSim, bracketOverrides[matchId].code, matchId)

-----------------------------------------------------------------------------
(* C4 *)

\* C4: every override names a possible occupant of its match: at a
\* Round-of-32 match one of the two teams its slots resolve to, at a later
\* match a possible occupant of one of its predecessor matches.
C4_OverridesNamePossibleOccupants ==
    \A matchId \in MatchIds :
        bracketOverrides[matchId] /= NoTeam
        => IF matchId <= R32MaxId
           THEN bracketOverrides[matchId].code \in SlotCodes(groupSim, matchId)
           ELSE \E p \in PrevOf(matchId) :
                    bracketOverrides[matchId].code
                        \in possibleOccupants(bracketOverrides, groupSim, p)

-----------------------------------------------------------------------------
(* C5 *)

\* C5: after handleBracketClick(matchId, team), lock or unlock, no match
\* strictly downstream of matchId holds an override.
C5_NoOverrideDownstreamAfterClick ==
    \A matchId \in MatchIds :
        \A team \in ClickableTeams(bracketOverrides, groupSim, matchId) :
            \A d \in DownstreamOf(matchId) :
                handleBracketClick(bracketOverrides, groupSim, matchId, team)[d] = NoTeam

\* a state with overrides two rounds downstream of a Round-of-32 match, which
\* an unlocking click and a locking click both clear
C5_Witness ==
    \E matchId \in R32Ids :
        /\ \A d \in DownstreamOf(matchId) : bracketOverrides[d] /= NoTeam
        /\ \E team \in ClickableTeams(bracketOverrides, groupSim, matchId) :
              /\ bracketOverrides[matchId] /= NoTeam
              /\ bracketOverrides[matchId].code = team.code
              /\ \A d \in DownstreamOf(matchId) :
                    handleBracketClick(bracketOverrides, groupSim, matchId, team)[d] = NoTeam
        /\ \E m2 \in R32Ids : \E team \in ClickableTeams(bracketOverrides, groupSim, m2) :
              /\ bracketOverrides[m2] = NoTeam
              /\ DownstreamOf(m2) = DownstreamOf(matchId)
              /\ handleBracketClick(bracketOverrides, groupSim, m2, team)[m2] /= NoTeam
              /\ \A d \in DownstreamOf(m2) :
                    handleBracketClick(bracketOverrides, groupSim, m2, team)[d] = NoTeam

-----------------------------------------------------------------------------
(* C6 *)

\* C6: a click on a possible occupant of matchId that is not its current lock
\* installs the team at matchId and along a chain of predecessors down to its
\* Round-of-32 match, and installs it at no match outside the matches that
\* feed matchId.
C6_LockPostcondition ==
    \A matchId \in MatchIds : \A team \in AllTeams :
        CanLock(bracketOverrides, groupSim, matchId, team)
        => LET after == handleBracketClick(bracketOverrides, groupSim, matchId, team)
           IN /\ after[matchId] = [code |-> team.code, elo |-> team.elo]
              /\ LockedPathTo(after, groupSim, team.code, matchId)
              /\ \A m \in MatchIds \ ({matchId} \cup UpstreamOf(matchId)) :
                    after[m] = bracketOverrides[m] \/ after[m] = NoTeam

-----------------------------------------------------------------------------
(* C7 *)

\* team is shown in matchId and is its current lock
CanUnlock(ov, gs, matchId, team) ==
    /\ team \in ClickableTeams(ov, gs, matchId)
    /\ ov[matchId] /= NoTeam
    /\ ov[matchId].code = team.code

\* C7: a click on the current lock of matchId leaves the team locked at no
\* match of the bracket.
C7_UnlockPostcondition ==
    \A matchId \in MatchIds : \A team \in AllTeams :
        CanUnlock(bracketOverrides, groupSim, matchId, team)
        => LockedTo(handleBracketClick(bracketOverrides, groupSim, matchId, team),
                    team.code) = {}

-----------------------------------------------------------------------------
(* C8 *)

FinalId == knockout.final[1].match

\* the team's win probability in one match of its path
RoundWinProb(ov, gs, team, matchId) ==
    IF matchId <= R32MaxId
    THEN LET mt == getMatchTeams(ov, gs, matchId)
             opponent == IF mt.team1.code = team.code THEN mt.team2 ELSE mt.team1
         IN knockoutWinProb(team.elo, opponent.elo)
    ELSE getWeightedWinProb(ov, gs, team.code, team.elo, matchId)

\* the product of the team's win probabilities in the matches of its path that
\* lead to matchId
RECURSIVE WinProduct(_, _, _, _)
WinProduct(ov, gs, team, matchId) ==
    LET onPath == {p \in PrevOf(matchId) : team.code \in possibleOccupants(ov, gs, p)}
    IN IF onPath = {} THEN ROne
       ELSE LET p == CHOOSE x \in onPath : \A y \in onPath : x <= y
            IN RMul(WinProduct(ov, gs, team, p), RoundWinProb(ov, gs, team, p))

-----------------------------------------------------------------------------
(* C9 *)

\* the sum of f[x] over the set S, f[x] a rational
RECURSIVE RSum(_, _)
RSum(f, S) ==
    IF S = {} THEN RZero
    ELSE LET x == CHOOSE y \in S : TRUE
         IN RAdd(f[x], RSum(f, S \ {x}))

\* the predecessors of matchId that can deliver the team, and the others
HoldersOf(ov, gs, code, matchId) ==
    {p \in PrevOf(matchId) : code \in possibleOccupants(ov, gs, p)}

\* the opponents that can arrive from predecessor p, each with its weight
OpponentsFrom(ov, gs, p) == SeqToSet(getPossibleTeamsFromMatch(ov, gs, p))
OpponentWeight(ov, gs, p) ==
    [o \in OpponentsFrom(ov, gs, p) |-> getCumulativeProbWin(ov, gs, o.code, p)]

\* the average of knockoutWinProb(team, opponent) over the possible occupants
\* of predecessor p, weighted by their cumulative win probability at p
WeightedAverage(ov, gs, teamElo, p) ==
    LET w == OpponentWeight(ov, gs, p)
        opps == OpponentsFrom(ov, gs, p)
    IN RDiv(RSum([o \in opps |-> RMul(w[o], knockoutWinProb(teamElo, o.elo))], opps),
            RSum(w, opps))

\* matchId is an unlocked later-round match, code a team that arrives from
\* one predecessor, p the opposite predecessor
OppositePredecessor(ov, gs, code, matchId, p) ==
    /\ matchId \notin R32Ids
    /\ ov[matchId] = NoTeam
    /\ HoldersOf(ov, gs, code, matchId) /= {}
    /\ PrevOf(matchId) \ HoldersOf(ov, gs, code, matchId) = {p}

\* C9: in an unlocked match beyond the Round of 32 the team's weighted win
\* probability is the average of knockoutWinProb over the possible occupants
\* of the opposite predecessor, weighted by their cumulative win probability
\* there; it is knockoutWinProb(team, O) when that predecessor is locked to O.
C9_WeightedWinProb ==
    \A matchId \in MatchIds : \A code \in {t.code : t \in AllTeams} : \A p \in MatchIds :
        OppositePredecessor(bracketOverrides, groupSim, code, matchId, p)
        => LET teamElo == getTeamElo(bracketOverrides, groupSim, code)
               value == getWeightedWinProb(bracketOverrides, groupSim, code, teamElo, matchId)
           IN /\ RSum(OpponentWeight(bracketOverrides, groupSim, p),
                      OpponentsFrom(bracketOverrides, groupSim, p)) /= RZero
                 => value = WeightedAverage(bracketOverrides, groupSim, teamElo, p)
              /\ bracketOverrides[p] /= NoTeam
                 => value = knockoutWinProb(teamElo, bracketOverrides[p].elo)

-----------------------------------------------------------------------------
(* C10 *)

\* C10: after sim iterations of either simulator on a group of 4 distinct
\* teams, the counts of each position summed over the teams, and the counts
\* of each team summed over the positions, are both sim.
C10_PositionCountsSumToIterations ==
    simulator /= "none"
    => /\ \A i \in 1..4 :
             SumOver([k \in 1..Len(GroupTeams) |-> positions[GroupTeams[k].code][i]],
                     Len(GroupTeams)) = sim
       /\ \A c \in Codes(GroupTeams) : SumOver(positions[c], 4) = sim

\* the tournament simulator after two iterations in which a team finished
\* first once and last once
C10_Witness ==
    /\ simulator = "simulateTournament"
    /\ sim = 2
    /\ \E c \in Codes(GroupTeams) : positions[c][1] = 1 /\ positions[c][4] = 1

-----------------------------------------------------------------------------
(* C11 *)

\* a is ahead of b in the order points, goal difference, rating, all descending
AheadOf(a, b) ==
    \/ a.points > b.points
    \/ a.points = b.points /\ a.gd > b.gd
    \/ a.points = b.points /\ a.gd = b.gd /\ a.elo > b.elo

\* C11: in every iteration over the twelve groups exactly eight of the twelve
\* third-place finishers have their Round-of-32 counter incremented, and no
\* third-place finisher left out is ahead of one of the eight in the order
\* points, goal difference, rating.
C11_EightBestThirdsQualify ==
    sim < MaxSims =>
    \A res \in GroupResultChoices : \A win \in KnockoutDraws :
        \E run \in {TournamentRun(tournamentKnockout.r32, res, win)} :
        \E after \in {AddRun(teamStats, run)} :
        \E thirds \in {thirdPlaceTeams(run.standings)} :
        \E marked \in {{i \in 1..Len(thirds) :
                          after[thirds[i].code].r32Count
                              = teamStats[thirds[i].code].r32Count + 1}} :
            /\ Len(thirds) = 12
            /\ Cardinality(marked) = 8
            /\ \A i \in marked : \A j \in (1..Len(thirds)) \ marked :
                  ~AheadOf(thirds[j], thirds[i])

\* after two iterations a team has finished third twice and qualified once
C11_Witness ==
    /\ simulator = "simulateTournament"
    /\ sim = 2
    /\ \E c \in TournamentCodes :
          teamStats[c].positions[3] = 2 /\ teamStats[c].r32Count = 1

-----------------------------------------------------------------------------
(* C12 *)

LaterTournamentMatches ==
    tournamentKnockout.r16 \o tournamentKnockout.qf
        \o tournamentKnockout.sf \o tournamentKnockout.final

\* the Round-of-32 matches a match transitively depends on
RECURSIVE R32Ancestors(_)
R32Ancestors(m) ==
    IF m <= Len(tournamentKnockout.r32) THEN {m}
    ELSE LET match == LaterTournamentMatches[
                          CHOOSE i \in 1..Len(LaterTournamentMatches) :
                              LaterTournamentMatches[i].match = m]
         IN UNION {R32Ancestors(p) : p \in SeqToSet(match.prevMatches)}

\* the Round-of-32 matches from the i-th on whose third-place pool has no
\* qualifier left in q when the match is reached
RECURSIVE ExhaustedPools(_, _, _)
ExhaustedPools(r32, q, i) ==
    IF i > Len(r32) THEN {}
    ELSE LET slot2 == parseSlot(r32[i].team2)
             idx == IF slot2.pos = 3 THEN FindThird(q, slot2.pool) ELSE 0
         IN IF slot2.pos = 3 /\ idx = 0
            THEN {r32[i].match} \cup ExhaustedPools(r32, q, i + 1)
            ELSE ExhaustedPools(r32, IF idx > 0 THEN RemoveAt(q, idx) ELSE q, i + 1)

RECURSIVE SumSet(_, _)
SumSet(f, S) ==
    IF S = {} THEN 0
    ELSE LET x == CHOOSE y \in S : TRUE IN f[x] + SumSet(f, S \ {x})

\* the total of one counter over all teams
CounterTotal(stats, field) ==
    SumSet([c \in DOMAIN stats |-> stats[c][field]], DOMAIN stats)

\* the matches of a round that do not depend on one of the given R32 matches
Independent(matches, dry) ==
    {i \in 1..Len(matches) : R32Ancestors(matches[i].match) \cap dry = {}}

\* C12: when the third-place pool of a Round-of-32 match has no qualifier left,
\* the iteration raises no error, the match has no winner and adds nothing to a
\* round counter, and no later match that depends on it has a winner or adds
\* to a round counter.
C12_ExhaustedPoolSkipsBranch ==
    sim < MaxSims =>
    \A res \in GroupResultChoices : \A win \in KnockoutDraws :
        \E run \in {TournamentRun(tournamentKnockout.r32, res, win)} :
        \E after \in {AddRun(teamStats, run)} :
        \E dry \in {ExhaustedPools(tournamentKnockout.r32, run.thirds, 1)} :
            /\ run.status = "ok"
            /\ \A m \in dry : run.r32Winners[m] = "null"
            /\ \A m \in TournamentMatchIds :
                  R32Ancestors(m) \cap dry /= {}
                  => /\ run.r16Winners[m] = "null"
                     /\ run.qfWinners[m] = "null"
                     /\ run.sfWinners[m] = "null"
                     /\ (m = 31 => run.champion = "null")
            /\ CounterTotal(after, "r16Count") - CounterTotal(teamStats, "r16Count")
                  <= Len(tournamentKnockout.r32) - Cardinality(dry)
            /\ CounterTotal(after, "qfCount") - CounterTotal(teamStats, "qfCount")
                  <= Cardinality(Independent(tournamentKnockout.r16, dry))
            /\ CounterTotal(after, "sfCount") - CounterTotal(teamStats, "sfCount")
                  <= Cardinality(Independent(tournamentKnockout.qf, dry))
            /\ CounterTotal(after, "finalCount") - CounterTotal(teamStats, "finalCount")
                  <= Cardinality(Independent(tournamentKnockout.sf, dry))
            /\ CounterTotal(after, "winCount") - CounterTotal(teamStats, "winCount")
                  <= Cardinality(Independent(tournamentKnockout.final, dry))

\* one iteration has run in which a Round-of-32 match was skipped and no
\* champion was credited
C12_Witness ==
    /\ simulator = "simulateTournament"
    /\ sim = 1
    /\ CounterTotal(teamStats, "r32Count") = 32
    /\ CounterTotal(teamStats, "r16Count") < Len(tournamentKnockout.r32)
    /\ CounterTotal(teamStats, "winCount") = 0

-----------------------------------------------------------------------------
(* C13 *)

\* C13: a group simulator given a team list whose length is not 4 fails
\* before it completes an iteration: it counts no finishing position.
C13_WrongSizeFailsFast ==
    (simulator /= "none" /\ Len(args.teams) /= 4)
    => sim = 0 /\ positions = ZeroPositions(args.teams)

-----------------------------------------------------------------------------
(* C14 *)

\* a slot whose first character is none of 1, 2, 3, or whose group letter
\* names no group
MalformedSlot(slot) ==
    \/ slot.head \notin {"1", "2", "3"}
    \/ slot.head \in {"1", "2"} /\ slot.tail \notin GroupSet

MalformedDefinition(r32) ==
    \E i \in 1..Len(r32) : MalformedSlot(r32[i].team1) \/ MalformedSlot(r32[i].team2)

\* C14: with a malformed slot in a Round-of-32 match definition the simulation
\* completes no iteration, and what it raises is a configuration error.
C14_MalformedSlotFailsFast ==
    (simulator = "simulateTournament" /\ MalformedDefinition(args.r32))
    => /\ sim = 0
       /\ result \in {"none", "ConfigurationError"}

-----------------------------------------------------------------------------
(* C15 *)

\* the functions that look a rating up and report it in the rows they return
RatingLookups == {"simulateBracket", "simulateUEFAPath", "calculateAllSoS"}

\* C15: wherever a rating is looked up, a team without a rating is given the
\* same default rating: every returned row of such a team carries it.
C15_OneDefaultRating ==
    simulator \in RatingLookups
    => \A i \in 1..Len(result.teams) :
          result.teams[i].code \notin DOMAIN args.ratings
          => result.teams[i].elo = DefaultRating

-----------------------------------------------------------------------------
(* C16 *)

\* the probability in the returned row of the team
ProbOf(rows, code) ==
    rows[CHOOSE i \in 1..Len(rows) : rows[i].code = code].prob

\* the knockout win probability of the first team over the second
WinProbOf(ratings, code1, code2) ==
    eloWinProbability(RInt(RatingOrDefault(ratings, code1)),
                      RInt(RatingOrDefault(ratings, code2)))

\* C16: in the 3-team bracket each team's probability of winning the bracket
\* is the sum over the two semifinal outcomes: with p the probability that
\* unseeded team 1 wins the semifinal, the seeded team has
\* p * W(seeded, unseeded1) + (1 - p) * W(seeded, unseeded2), unseeded team 1
\* has p * W(unseeded1, seeded) and unseeded team 2 has
\* (1 - p) * W(unseeded2, seeded).
C16_BracketSumsOverSemifinal ==
    simulator = "simulateBracket"
    => LET seeded == args.groupData.intercontinental.seeded
           unseeded1 == args.groupData.intercontinental.unseeded[1]
           unseeded2 == args.groupData.intercontinental.unseeded[2]
           W(a, b) == WinProbOf(args.ratings, a, b)
           p == W(unseeded1, unseeded2)
       IN /\ ProbOf(result.teams, seeded)
                = RAdd(RMul(p, W(seeded, unseeded1)),
                       RMul(RSub(ROne, p), W(seeded, unseeded2)))
          /\ ProbOf(result.teams, unseeded1) = RMul(p, W(unseeded1, seeded))
          /\ ProbOf(result.teams, unseeded2) = RMul(RSub(ROne, p), W(unseeded2, seeded))

-----------------------------------------------------------------------------
(* C17 *)

RECURSIVE ProbTotal(_, _)
ProbTotal(rows, i) ==
    IF i > Len(rows) THEN RZero ELSE RAdd(rows[i].prob, ProbTotal(rows, i + 1))

\* C17: the win probabilities returned by the 3-team bracket and by the
\* 4-team path sum to exactly 1.
C17_ProbabilitiesSumToOne ==
    simulator \in {"simulateBracket", "simulateUEFAPath"}
    => ProbTotal(result.teams, 1) = ROne

\* a 4-team path has been resolved for teams of three different ratings
C17_Witness ==
    /\ simulator = "simulateUEFAPath"
    /\ Len(result.teams) = 4
    /\ Cardinality({result.teams[i].elo : i \in 1..4}) = 3

-----------------------------------------------------------------------------
(* C18 *)

\* the orders of the path's teams in which no team is rated above a team
\* placed before it
Seedings(teams, ratings) ==
    {seeds \in [1..Len(teams) -> SeqToSet(teams)] :
        /\ \A i, j \in 1..Len(teams) : i /= j => seeds[i] /= seeds[j]
        /\ \A i \in 1..(Len(teams) - 1) :
              RatingOrDefault(ratings, seeds[i]) >= RatingOrDefault(ratings, seeds[i + 1])}

\* the sum, over the four pairs of finalists (a from the semifinal of seeds 1
\* and 4, b from the semifinal of seeds 2 and 3), of the probability of the
\* two semifinal results times the team's win probability in that final
PairingSum(seeds, ratings, team) ==
    LET W(a, b) == WinProbOf(ratings, a, b)
        Term(a, otherA, b, otherB) ==
            RMul(RMul(W(a, otherA), W(b, otherB)),
                 IF team = a THEN W(a, b) ELSE IF team = b THEN W(b, a) ELSE RZero)
    IN RAdd(RAdd(Term(seeds[1], seeds[4], seeds[2], seeds[3]),
                 Term(seeds[1], seeds[4], seeds[3], seeds[2])),
            RAdd(Term(seeds[4], seeds[1], seeds[2], seeds[3]),
                 Term(seeds[4], seeds[1], seeds[3], seeds[2])))

\* C18: in the 4-team path the teams are seeded by rating, seed 1 meets seed 4
\* and seed 2 meets seed 3, and each team's probability of winning the path is
\* the sum over the four possible pairs of finalists of the probability of the
\* pair times the team's win probability in that final.
C18_PathSumsOverFinalistPairs ==
    simulator = "simulateUEFAPath"
    => \E seeds \in Seedings(args.groupData.uefa.teams, args.ratings) :
          \A team \in SeqToSet(args.groupData.uefa.teams) :
              ProbOf(result.teams, team) = PairingSum(seeds, args.ratings, team)

\* a path has been resolved whose first listed team is rated below its last
\* listed team, and whose second is rated above its third
C18_Witness ==
    /\ simulator = "simulateUEFAPath"
    /\ RatingOrDefault(args.ratings, "p1") < RatingOrDefault(args.ratings, "p4")
    /\ RatingOrDefault(args.ratings, "p2") > RatingOrDefault(args.ratings, "p3")

-----------------------------------------------------------------------------
(* C19 *)

RLeq(p, q) == ~RLess(q, p)

\* C19: the win, draw and loss probabilities of a match sum to 1, the draw
\* probability is at least 0.15 and at most 0.27 (0.15 for ratings 2000 and
\* 1500), and the sampler returns win for a random draw below the win
\* probability, draw for one from there to below win plus draw, and loss for
\* every other draw: exactly one outcome for every draw in [0, 1).
C19_MatchOutcomePartition ==
    /\ simulator = "getMatchProbabilities"
       => /\ RAdd(result.winProb, RAdd(result.drawProb, result.lossProb)) = ROne
          /\ RLeq(<<15, 100>>, result.drawProb)
          /\ RLeq(result.drawProb, <<27, 100>>)
          /\ RLeq(RZero, result.winProb) /\ RLeq(RZero, result.lossProb)
          /\ (args.teamElo = 2000 /\ args.oppElo = 1500) => result.drawProb = <<3, 20>>
    /\ simulator = "simulateMatch"
       => LET probs == getMatchProbabilities(args.teamElo, args.oppElo)
              winEnd == probs.winProb
              drawEnd == RAdd(probs.winProb, probs.drawProb)
          IN /\ result \in Outcomes
             /\ result = "win" <=> RLess(args.rand, winEnd)
             /\ result = "draw" <=> RLeq(winEnd, args.rand) /\ RLess(args.rand, drawEnd)
             /\ result = "loss" <=> RLeq(drawEnd, args.rand)

\* the probabilities have been computed for ratings 2000 and 1500, where the
\* floor of the draw probability applies
C19_Witness ==
    /\ simulator = "getMatchProbabilities"
    /\ args.teamElo = 2000 /\ args.oppElo = 1500
    /\ result.drawProb = <<3, 20>>

-----------------------------------------------------------------------------
(* C20 *)

\* the results of the pairings of one iteration with the given number of draws
ResultsWithDraws(teams, draws) ==
    {r \in [1..Len(Pairings(Len(teams))) -> Outcomes] :
        Cardinality({k \in DOMAIN r : r[k] = "draw"}) = draws}

\* in how many of them the team listed t-th finishes at the position
PlacedCount(teams, t, pos, draws) ==
    Cardinality({r \in ResultsWithDraws(teams, draws) :
                    StandingsByPoints(teams, r)[pos] = teams[t].code})

\* the points of the team listed t-th, added up over the results in R
PointsSum(teams, t, R) ==
    LET pairs == Pairings(Len(teams))
    IN SumOver([v \in 1..(3 * (Len(teams) - 1)) |->
                   v * Cardinality({r \in R : PointsOf(t, pairs, r) = v})],
               3 * (Len(teams) - 1))

\* C20: for four teams of one rating the standalone group simulator treats the
\* teams alike.  Results with the same number of draws are equally likely, so
\* for every number of draws each team collects the same points over those
\* results and is placed at each position by equally many of them.
C20_EqualTeamsTreatedAlike ==
    (simulator = "simulateGroupMonteCarlo"
        /\ \A i \in 1..Len(args.teams) : args.teams[i].elo = args.teams[1].elo)
    => \A draws \in 0..Len(Pairings(Len(args.teams))) :
       \A t \in 2..Len(args.teams) :
          /\ PointsSum(args.teams, t, ResultsWithDraws(args.teams, draws))
                = PointsSum(args.teams, 1, ResultsWithDraws(args.teams, draws))
          /\ \A pos \in 1..Len(args.teams) :
                PlacedCount(args.teams, t, pos, draws)
                    = PlacedCount(args.teams, 1, pos, draws)

-----------------------------------------------------------------------------
(* C21 *)

\* The pairings that team t won, drew and lost under the given results
WonBy(t, pairs, results) ==
    {k \in 1..Len(pairs) : \/ pairs[k][1] = t /\ results[k] = "win"
                           \/ pairs[k][2] = t /\ results[k] = "loss"}
DrawnBy(t, pairs, results) ==
    {k \in 1..Len(pairs) : t \in {pairs[k][1], pairs[k][2]} /\ results[k] = "draw"}
LostBy(t, pairs, results) ==
    {k \in 1..Len(pairs) : \/ pairs[k][1] = t /\ results[k] = "loss"
                           \/ pairs[k][2] = t /\ results[k] = "win"}

\* C21: the standings simulateGroup returns in the tournament simulator are a
\* permutation of the group's teams, each with 3 points per win and 1 per
\* draw and goal difference wins minus losses, and no entry is behind its
\* successor in the order points, goal difference, rating (all descending).
C21_StandingsOrdered ==
    (simulator = "simulateTournament" /\ sim < MaxSims) =>
    \A results \in [1..Len(Pairings(Len(args.teams))) -> Outcomes] :
        \E pairs \in {Pairings(Len(args.teams))} :
        \E standings \in {simulateGroup(args.teams, results)} :
            /\ Len(standings) = Len(args.teams)
            /\ \A t \in 1..Len(args.teams) :
                  \E i \in 1..Len(standings) :
                     /\ standings[i].code = args.teams[t].code
                     /\ standings[i].elo = args.teams[t].elo
                     /\ standings[i].points
                           = 3 * Cardinality(WonBy(t, pairs, results))
                               + Cardinality(DrawnBy(t, pairs, results))
                     /\ standings[i].gd
                           = Cardinality(WonBy(t, pairs, results))
                               - Cardinality(LostBy(t, pairs, results))
            /\ \A i \in 1..(Len(standings) - 1) :
                  ~AheadOf(standings[i + 1], standings[i])

\* an iteration has run on a group listed by rating ascending in which the
\* first two of the standings were level on points and goal difference and
\* the higher rated one, listed later, was counted first
C21_Witness ==
    /\ simulator = "simulateTournament"
    /\ sim = 1
    /\ \E results \in [1..Len(Pairings(Len(args.teams))) -> Outcomes] :
          \E standings \in {simulateGroup(args.teams, results)} :
             /\ positions = CountPositions(ZeroPositions(args.teams),
                               [i \in 1..Len(standings) |-> standings[i].code])
             /\ standings[1].points = standings[2].points
             /\ standings[1].gd = standings[2].gd
             /\ standings[1].elo > standings[2].elo
             /\ \E t1, t2 \in 1..Len(args.teams) :
                   /\ t2 < t1
                   /\ args.teams[t1].code = standings[1].code
                   /\ args.teams[t2].code = standings[2].code

-----------------------------------------------------------------------------
(* C22 *)

\* the qualifiers (indexes into the ranked list) that no pool slot of a match
\* listed before the i-th has taken
RemainingThirds(r32, thirds, teams, i) ==
    {k \in 1..Len(thirds) :
        \A j \in 1..(i - 1) :
            r32[j].team2.head = "3" => teams[r32[j].match][2] /= thirds[k].code}

\* C22: in every iteration the team of a 3<pool> slot is the highest-ranked
\* qualifying third not taken by an earlier pool slot whose group letter is in
\* the pool (no team when there is none), and no team occupies more than one
\* of the Round-of-32 slots.
C22_ThirdConsumedOnce ==
    sim < MaxSims =>
    \A res \in GroupResultChoices : \A win \in KnockoutDraws :
        \E run \in {TournamentRun(args.r32, res, win)} :
            /\ \A i \in 1..Len(args.r32) :
                  args.r32[i].team2.head = "3" =>
                  \E left \in {{k \in RemainingThirds(args.r32, run.thirds, run.r32Teams, i) :
                                   run.thirds[k].group
                                       \in SeqToSet(SplitChars(args.r32[i].team2.tail))}} :
                     run.r32Teams[args.r32[i].match][2]
                         = IF left = {} THEN "null"
                           ELSE run.thirds[CHOOSE k \in left : \A j \in left : k <= j].code
            /\ \A m1, m2 \in 1..Len(args.r32) : \A s1, s2 \in 1..2 :
                  (<< m1, s1 >> /= << m2, s2 >> /\ run.r32Teams[m1][s1] /= "null")
                  => run.r32Teams[m1][s1] /= run.r32Teams[m2][s2]

\* an iteration has run in which a team finished third, qualified, filled a
\* pool slot and won its Round-of-32 match
C22_Witness ==
    /\ simulator = "simulateTournament"
    /\ sim = 1
    /\ \E c \in TournamentCodes :
          /\ teamStats[c].positions[3] = 1
          /\ teamStats[c].r32Count = 1
          /\ teamStats[c].r16Count = 1

-----------------------------------------------------------------------------
(* C23 *)

\* the qualifying thirds whose group letter is in the pool of the slot
PoolQualifiers(thirds, slot) ==
    {thirds[k].code : k \in {j \in 1..Len(thirds) :
                                thirds[j].group \in SeqToSet(SplitChars(slot.tail))}}

\* C23: a 3<pool> notation is resolved alike in either slot of a Round-of-32
\* match: when the first pool slot of the listing has a qualifying third from
\* its pool, the slot is occupied by one of them, be it team1 or team2.
C23_PoolResolvedInEitherSlot ==
    (simulator = "simulateTournament" /\ sim < MaxSims /\ result = "none") =>
    \A res \in GroupResultChoices : \A win \in KnockoutDraws :
        \E run \in {TournamentRun(args.r32, res, win)} :
        \E first \in {CHOOSE i \in 1..Len(args.r32) :
                         /\ "3" \in {args.r32[i].team1.head, args.r32[i].team2.head}
                         /\ \A j \in 1..(i - 1) :
                               "3" \notin {args.r32[j].team1.head, args.r32[j].team2.head}} :
            run.status = "ok" =>
            /\ (args.r32[first].team1.head = "3"
                   /\ PoolQualifiers(run.thirds, args.r32[first].team1) /= {})
               => run.r32Teams[args.r32[first].match][1]
                     \in PoolQualifiers(run.thirds, args.r32[first].team1)
            /\ (args.r32[first].team2.head = "3"
                   /\ PoolQualifiers(run.thirds, args.r32[first].team2) /= {})
               => run.r32Teams[args.r32[first].match][2]
                     \in PoolQualifiers(run.thirds, args.r32[first].team2)

-----------------------------------------------------------------------------
(* C24 *)

\* the round counters in bracket order
RoundCounters == << "r32Count", "r16Count", "qfCount", "sfCount", "finalCount", "winCount" >>

\* C24: every team's round counters never increase along the bracket, and an
\* iteration adds to a team's counter of a round only if it adds to the
\* team's counter of the round before.
C24_RoundCountersMonotone ==
    simulator = "simulateTournament" =>
    /\ \A c \in DOMAIN teamStats : \A k \in 1..(Len(RoundCounters) - 1) :
          teamStats[c][RoundCounters[k]] >= teamStats[c][RoundCounters[k + 1]]
    /\ (sim < MaxSims /\ result = "none") =>
       \A res \in GroupResultChoices : \A win \in KnockoutDraws :
          \E run \in {TournamentRun(args.r32, res, win)} :
          \E after \in {AddRun(teamStats, run)} :
             \A c \in DOMAIN teamStats : \A k \in 1..(Len(RoundCounters) - 1) :
                after[c][RoundCounters[k + 1]] > teamStats[c][RoundCounters[k + 1]]
                => after[c][RoundCounters[k]] > teamStats[c][RoundCounters[k]]

\* after two iterations a team has been champion once and gone out in the
\* Round of 32 once
C24_Witness ==
    /\ simulator = "simulateTournament"
    /\ sim = 2
    /\ \E c \in TournamentCodes :
          /\ teamStats[c].r32Count = 2
          /\ teamStats[c].r16Count = 1
          /\ teamStats[c].winCount = 1

-----------------------------------------------------------------------------
(* C25 *)

\* the matches of a Round-of-32 listing that had both teams
PlayedR32(r32, run) ==
    {i \in 1..Len(r32) : /\ run.r32Teams[r32[i].match][1] /= "null"
                         /\ run.r32Teams[r32[i].match][2] /= "null"}

\* what an iteration adds to one counter over all teams
Added(after, before, field) == CounterTotal(after, field) - CounterTotal(before, field)

\* C25: an iteration credits a champion, with 16, 8, 4, 2 and 1 increments of
\* the counters from r16Count to winCount, exactly when all its Round-of-32
\* matches had both teams; otherwise it credits no title, so the titles
\* credited are as many as the iterations only if no iteration skipped a
\* Round-of-32 match.
C25_ChampionIffFullRoundOf32 ==
    simulator = "simulateTournament" =>
    /\ CounterTotal(teamStats, "winCount") <= sim
    /\ CounterTotal(teamStats, "winCount") = sim
          <=> CounterTotal(teamStats, "r16Count") = Len(args.r32) * sim
    /\ (sim < MaxSims /\ result = "none") =>
       \A res \in GroupResultChoices : \A win \in KnockoutDraws :
          \E run \in {TournamentRun(args.r32, res, win)} :
          \E after \in {AddRun(teamStats, run)} :
             IF PlayedR32(args.r32, run) = 1..Len(args.r32)
             THEN /\ Added(after, teamStats, "winCount") = 1
                  /\ Added(after, teamStats, "finalCount") = 2
                  /\ Added(after, teamStats, "sfCount") = 4
                  /\ Added(after, teamStats, "qfCount") = 8
                  /\ Added(after, teamStats, "r16Count") = 16
             ELSE Added(after, teamStats, "winCount") = 0

\* after two iterations one title has been credited: one iteration played all
\* sixteen Round-of-32 matches and the other skipped one
C25_Witness ==
    /\ simulator = "simulateTournament"
    /\ sim = 2
    /\ CounterTotal(teamStats, "winCount") = 1
    /\ CounterTotal(teamStats, "r16Count") < 2 * Len(tournamentKnockout.r32)
    /\ CounterTotal(teamStats, "r16Count") >= Len(tournamentKnockout.r32)

-----------------------------------------------------------------------------
(* C26 *)

\* C26: whenever monteCarloCache.rankingsTimestamp equals
\* cache.rankings.timestamp, monteCarloCache.data was computed from the
\* rankings that cache.rankings holds.
C26_SimulationMatchesRankings ==
    monteCarloCache.rankingsTimestamp = cache.rankings.timestamp
    => monteCarloCache.data = cache.rankings.data

-----------------------------------------------------------------------------
(* C27 *)

\* in this step the handler starts a fetch for the key
StartsFetch(r, key) ==
    /\ requests'[r].pc = "fetch" /\ requests'[r].key = key
    /\ ~(requests[r].pc = "fetch" /\ requests[r].key = key)

\* C27: no handler starts a fetch for a key whose cached entry is younger
\* than the TTL; when a fetch or parse fails and a value is cached, the handler
\* goes on with that value and the cache is left unchanged; when it fails and
\* nothing is cached, the route answers with status 500.
C27_CacheTTLAndFallback ==
    [][\A r \in RequestIds :
          /\ \A key \in DOMAIN cache : StartsFetch(r, key) => ~Fresh(cache, key, clock)
          /\ (FetchSettles(r, FALSE) /\ cache[requests[r].key].data /= NoData)
             => /\ requests'[r][requests[r].key] = cache[requests[r].key].data
                /\ requests'[r].status /= 500
                /\ cache' = cache
          /\ (FetchSettles(r, FALSE) /\ cache[requests[r].key].data = NoData)
             => /\ requests'[r].pc = "done"
                /\ requests'[r].status = 500
                /\ cache' = cache]_vars

\* one handler has answered 500, and GET /api/rankings has answered 200 with
\* the rankings of an entry that had expired when it was called
C27_Witness ==
    \E r1, r2 \in RequestIds :
        /\ requests[r1].status = 500
        /\ requests[r2].route = "rankings"
        /\ requests[r2].status = 200
        /\ cache.rankings.data /= NoData
        /\ requests[r2].now - cache.rankings.timestamp >= CACHE_TTL
        /\ Fresh(cache, "teams", requests[r2].now)
        /\ requests[r2].rankings = cache.rankings.data

-----------------------------------------------------------------------------
(* C28 *)

\* the matches a click on the team in matchId may touch: matchId, the matches
\* feeding it that the team can occupy, and the matches downstream of it
ClickFootprint(ov, gs, matchId, code) ==
    {matchId}
        \cup {u \in UpstreamOf(matchId) : code \in possibleOccupants(ov, gs, u)}
        \cup DownstreamOf(matchId)

\* C28: a click on a possible occupant of matchId changes the override of no
\* match other than matchId, the matches on the team's path up to matchId and
\* the matches downstream of matchId.
C28_ClickFrame ==
    [][\A matchId \in MatchIds, team \in AllTeams :
          (/\ BracketClick(matchId, team)
           /\ team.code \in possibleOccupants(bracketOverrides, groupSim, matchId))
          => \A m \in MatchIds \ ClickFootprint(bracketOverrides, groupSim, matchId, team.code) :
                bracketOverrides'[m] = bracketOverrides[m]]_vars

-----------------------------------------------------------------------------
(* C29 *)

\* every Round-of-32 slot resolves to a team of its own
SlotsDistinct(gs) ==
    /\ \A m \in R32Ids : Cardinality(SlotCodes(gs, m)) = 2
    /\ \A m1, m2 \in R32Ids : m1 /= m2 => SlotCodes(gs, m1) \cap SlotCodes(gs, m2) = {}

\* C29: when the Round-of-32 slots resolve to distinct teams, in every
\* override state reached by clicks and resets the cumulative win
\* probabilities of the possible occupants of each match sum to 1; at a
\* locked match the locked team has 1 and every other team 0.
C29_WinProbabilitiesSumToOne ==
    SlotsDistinct(groupSim) =>
    \A m \in MatchIds :
        /\ RSum([c \in possibleOccupants(bracketOverrides, groupSim, m) |->
                    getCumulativeProbWin(bracketOverrides, groupSim, c, m)],
                possibleOccupants(bracketOverrides, groupSim, m)) = ROne
        /\ bracketOverrides[m] /= NoTeam
           => \A c \in {t.code : t \in AllTeams} :
                 getCumulativeProbWin(bracketOverrides, groupSim, c, m)
                    = IF c = bracketOverrides[m].code THEN ROne ELSE RZero

\* a team is locked in one semifinal branch while the other branch and the
\* final are open: the final has three possible occupants of unequal ratings
C29_Witness ==
    /\ SlotsDistinct(groupSim)
    /\ bracketOverrides[FinalId] = NoTeam
    /\ \E m \in PrevOf(FinalId) : bracketOverrides[m] /= NoTeam
    /\ \E m \in PrevOf(FinalId) : bracketOverrides[m] = NoTeam
    /\ \E c1, c2 \in possibleOccupants(bracketOverrides, groupSim, FinalId) :
          /\ getTeamElo(bracketOverrides, groupSim, c1)
                /= getTeamElo(bracketOverrides, groupSim, c2)
          /\ getCumulativeProbWin(bracketOverrides, groupSim, c1, FinalId) /= RZero
          /\ getCumulativeProbWin(bracketOverrides, groupSim, c2, FinalId) /= RZero

-----------------------------------------------------------------------------
(* C30 *)

\* the total of one field of the accumulated stats over the teams
StatTotal(stats, field) == SumSet([c \in DOMAIN stats |-> stats[c][field]], DOMAIN stats)

\* C30: after sim iterations of the standalone group simulator on 4 teams,
\* every team has wins + draws + losses = 3 * sim and points = 3 * wins +
\* draws, the wins of all teams equal the losses of all teams, and the points
\* of all teams are between 12 * sim and 18 * sim.
C30_GroupTotalsConsistent ==
    (simulator = "simulateGroupMonteCarlo" /\ DOMAIN teamStats /= {}) =>
    /\ \A c \in DOMAIN teamStats :
          /\ teamStats[c].wins + teamStats[c].draws + teamStats[c].losses = 3 * sim
          /\ teamStats[c].points = 3 * teamStats[c].wins + teamStats[c].draws
    /\ StatTotal(teamStats, "wins") = StatTotal(teamStats, "losses")
    /\ StatTotal(teamStats, "points") >= 12 * sim
    /\ StatTotal(teamStats, "points") <= 18 * sim

\* two iterations have run, with drawn and decided matches, and a team has
\* won, drawn and lost
C30_Witness ==
    /\ simulator = "simulateGroupMonteCarlo"
    /\ DOMAIN teamStats /= {}
    /\ sim = 2
    /\ StatTotal(teamStats, "points") > 12 * sim
    /\ StatTotal(teamStats, "points") < 18 * sim
    /\ \E c \in DOMAIN teamStats :
          teamStats[c].wins > 0 /\ teamStats[c].draws > 0 /\ teamStats[c].losses > 0

====
